---- MODULE Spec2Model ----
(***************************************************************************)
(* Model of the P2/P1 Navier-Stokes solver: the Mesh2d loader and          *)
(* Mesh2d::PointsMil (mesh.cpp, mesh_gmsh.cpp and the third mesh unit),    *)
(* point location (Fonctions_Utiles.hpp) and resolution_Stokes / main.     *)
(*                                                                         *)
(* Coordinates are exact numbers in units of 1/4: the integer 4 is the     *)
(* double 1.0, 2 is 0.5, 1 is 0.25.  Every vertex coordinate of the input  *)
(* files below is a multiple of 1/2, so the doubles (x0+x1)/2 of the code  *)
(* are exact and are again integers in these units.  C++ vectors are       *)
(* sequences; the 0-based index i of the code is position i+1 here.        *)
(***************************************************************************)
EXTENDS Integers, Sequences, FiniteSets, TLC

VARIABLES
    pc,              \* position of main
    variant,         \* which PointsMil translation unit is linked
    nv, nbt, nbe,    \* Mesh2d::nv, nbt, nbe
    v,               \* Mesh2d::v
    t,               \* Mesh2d::t
    e,               \* Mesh2d::e
    voisins,         \* Mesh2d::voisins
    triangleSortie,  \* Mesh2d::triangleSortie
    n,               \* int n = Th.PointsMil() of main
    loc,             \* arguments and results of the last RecupVoisins call
    trace,           \* the last quadrature point traced back, or exit search
    basis,           \* the last point at which the shape functions were taken
    M1, M2,          \* MatMap M1, M2 of main
    xprec, X,        \* vector<double> xprec, X of main
    rhs,             \* the vector b handed to the solver by the last call
    call,            \* arguments of the last call of resolution_Stokes
    step             \* the loop variable t of main

meshVars == <<variant, nv, nbt, nbe, v, t, e, voisins, triangleSortie, n>>

nsVars == <<M1, M2, xprec, X, rhs, call, step>>

locVars == <<loc, trace, basis>>

---------------------------------------------------------------------------
(* Bounds of the model *)

\* longest triangle list read from a mesh file
MaxTri == 2

\* largest coordinate (in quarters) of a point handed to point location
GridMax == 8

---------------------------------------------------------------------------
(* Small helpers for 0-based vectors *)

At(s, i) == s[i + 1]

Put(s, i, x) == [s EXCEPT ![i + 1] = x]

Abs(x) == IF x < 0 THEN -x ELSE x

RECURSIVE SeqsUpTo(_, _)
SeqsUpTo(S, len) ==
    IF len = 0 THEN {<<>>}
    ELSE LET shorter == SeqsUpTo(S, len - 1)
         IN  shorter \cup {Append(s, x) : s \in shorter, x \in S}

\* std::sort on a vector<int>
RECURSIVE sort(_)
sort(s) ==
    IF s = <<>> THEN <<>>
    ELSE LET m == CHOOSE x \in {s[i] : i \in 1..Len(s)} :
                      \A i \in 1..Len(s) : x <= s[i]
             p == CHOOSE i \in 1..Len(s) :
                      s[i] = m /\ \A j \in 1..(i - 1) : s[j] # m
         IN  <<m>> \o sort(SubSeq(s, 1, p - 1) \o SubSeq(s, p + 1, Len(s)))

\* mutant: duplicates are kept
unique_Keep(s) == s

\* std::unique followed by resize: consecutive duplicates are removed
RECURSIVE unique(_)
unique(s) ==
    IF Len(s) <= 1 THEN s
    ELSE IF s[1] = s[2] THEN unique(Tail(s))
         ELSE <<s[1]>> \o unique(Tail(s))

---------------------------------------------------------------------------
(* Geometry primitives *)

\* indeterminate NumGlobal_ of a default-constructed Vertex
NoNum == -1

\* Vertex::Vertex()
VertexDefault == [x |-> 0, y |-> 0, num |-> NoNum, lab |-> 0]

\* Vertex::build(coord, ind) with the default Label
VertexBuild(x, y, ind) == [x |-> x, y |-> y, num |-> ind, lab |-> 0]

\* det(A,B,C) of R2.hpp: twice the signed area of (A,B,C)
det(A, B, C) == (B.x - A.x) * (C.y - A.y) - (B.y - A.y) * (C.x - A.x)

\* Triangle::build(vtot, I, offset): corners are copies of the vertices; area2
\* is twice the area that Heron's formula yields (|det| in exact arithmetic)
TriangleBuild(vtot, I, offset, num) ==
    LET c0 == At(vtot, I[1] + offset)
        c1 == At(vtot, I[2] + offset)
        c2 == At(vtot, I[3] + offset)
    IN  [numTri |-> num,
         v      |-> <<c0, c1, c2>>,
         mil    |-> <<VertexDefault, VertexDefault, VertexDefault>>,
         area2  |-> Abs(det(c0, c1, c2))]

\* Edge::build(vtot, I, offset)
EdgeBuild(vtot, I, offset, num) ==
    [numEdg |-> num,
     lab    |-> I[3],
     v      |-> <<At(vtot, I[1] + offset), At(vtot, I[2] + offset)>>]

---------------------------------------------------------------------------
(* Mesh files (format A: nv nbt nbe, vertices, triangles, boundary edges) *)

\* vertex lines of the files: a 2 x 1 rectangle cut in two unit squares
PointTable ==
    << <<0, 0>>, <<4, 0>>, <<4, 4>>, <<0, 4>>, <<8, 0>>, <<8, 4>> >>

\* triangle lines (1-based corner numbers as written in the file)
TriChoices(nvf) ==
    { <<1, 2, 3>>, <<1, 3, 4>>, <<3, 1, 2>>, <<1, 3, 2>>, <<1, 2, 4>>,
      <<2, 3, 4>> }
    \cup (IF nvf > 4 THEN { <<2, 5, 6>>, <<2, 6, 3>>, <<5, 6, 3>> } ELSE {})

\* boundary edge sections (corner, corner, label)
SquareBoundary ==
    << <<1, 2, 20>>, <<2, 3, 30>>, <<3, 4, 40>>, <<4, 1, 10>> >>

BoundaryChoices(nvf) ==
    { <<>>,
      SquareBoundary,
      << <<4, 1, 10>>, <<2, 1, 20>>, <<3, 2, 30>> >>,
      << <<2, 3, 30>>, <<1, 2, 20>>, <<1, 3, 40>> >> }
    \cup (IF nvf > 4
          THEN { << <<1, 2, 20>>, <<2, 5, 20>>, <<5, 6, 30>>, <<6, 3, 40>>,
                    <<3, 4, 40>>, <<4, 1, 10>> >> }
          ELSE {})

\* a file with the vertex lines pts
MeshFileAt(pts, tris, edges) ==
    [nv |-> Len(pts), pts |-> pts, tris |-> tris, edges |-> edges]

\* a file whose vertex lines are the first nvf points of the table
MeshFile(nvf, tris, edges) ==
    MeshFileAt(SubSeq(PointTable, 1, nvf), tris, edges)

MeshFiles(maxTri) ==
    { MeshFile(nvf, tris, edges) :
        nvf \in {4},
        tris \in SeqsUpTo(TriChoices(4), maxTri) \ {<<>>},
        edges \in BoundaryChoices(4) }
    \cup
    { MeshFile(nvf, tris, edges) :
        nvf \in {6},
        tris \in SeqsUpTo(TriChoices(6), maxTri) \ {<<>>},
        edges \in BoundaryChoices(6) }

\* Mesh2d::Mesh2d(filename): the vertex, triangle and edge loops
LoadV(f) ==
    [i \in 1..f.nv |->
        VertexBuild(f.pts[i][1], f.pts[i][2], i - 1)]

LoadT(f) ==
    [i \in 1..Len(f.tris) |-> TriangleBuild(LoadV(f), f.tris[i], -1, i - 1)]

LoadE(f) ==
    [i \in 1..Len(f.edges) |-> EdgeBuild(LoadV(f), f.edges[i], -1, i - 1)]

---------------------------------------------------------------------------
(* Mesh2d::PointsMil *)

\* the three translation units that define Mesh2d::PointsMil
Variants == {"mesh", "gmsh", "tri"}

\* mutant: the swap of s1 and s2 is forgotten
EdgeKey_NoSwap(a, b) == <<a, b>>

\* if (s2 > s1) swap(s1, s2); pair<int,int> key(s1, s2)
EdgeKey(a, b) == IF b > a THEN <<b, a>> ELSE <<a, b>>

\* operator< of pair<int,int>, the iteration order of the std::map M
KeyLess(p, q) == p[1] < q[1] \/ (p[1] = q[1] /\ p[2] < q[2])

RECURSIVE KeysInOrder(_)
KeysInOrder(K) ==
    IF K = {} THEN <<>>
    ELSE LET m == CHOOSE p \in K : \A q \in K \ {p} : KeyLess(p, q)
         IN  <<m>> \o KeysInOrder(K \ {m})

\* the loop over the boundary edges: ME[key] = val and, except in
\* mesh_gmsh.cpp, v[s1].setLab(val); v[s2].setLab(val)
RECURSIVE BoundaryLoop(_, _, _, _)
BoundaryLoop(st, ee, k, var) ==
    IF k >= Len(ee) THEN st
    ELSE LET key == EdgeKey(At(ee, k).v[1].num, At(ee, k).v[2].num)
             val == At(ee, k).lab
             vl  == IF var = "gmsh" THEN st.v
                    ELSE LET w == Put(st.v, key[1],
                                      [At(st.v, key[1]) EXCEPT !.lab = val])
                         IN  Put(w, key[2], [At(w, key[2]) EXCEPT !.lab = val])
         IN  BoundaryLoop([ME |-> (key :> val) @@ st.ME, v |-> vl],
                          ee, k + 1, var)

\* mutant: only voisins[k] receives the neighbour
PushBoth_OneWay(vo, k, j) == Put(vo, k, Append(At(vo, k), j))

\* voisins[k].push_back(j); voisins[j].push_back(k)
PushBoth(vo, k, j) ==
    LET w == Put(vo, k, Append(At(vo, k), j))
    IN  Put(w, j, Append(At(w, j), k))

\* mesh.cpp: the loop over the entries of M that touch s1 or s2
RECURSIVE TouchLoop(_, _, _, _, _)
TouchLoop(vo, M, keys, key, k) ==
    IF keys = <<>> THEN vo
    ELSE LET it    == Head(keys)
             touch == it[1] = key[1] \/ it[1] = key[2]
                      \/ it[2] = key[1] \/ it[2] = key[2]
             w     == IF touch /\ M[it].second # k
                      THEN PushBoth(vo, k, M[it].second)
                      ELSE vo
         IN  TouchLoop(w, M, Tail(keys), key, k)

\* sort, unique and resize of every voisins[k]
SortUniqueAll(vo) == [k \in 1..Len(vo) |-> unique(sort(vo[k]))]

\* the incident triangles v[num].getTri(): the triangles that have a corner
\* numbered num, in the order of their construction
RECURSIVE getTri(_, _, _)
getTri(tt, num, k) ==
    IF k >= Len(tt) THEN <<>>
    ELSE (IF \E a \in 1..3 : At(tt, k).v[a].num = num THEN <<k>> ELSE <<>>)
         \o getTri(tt, num, k + 1)

\* third unit: voisins[k].push_back(tri[i]) for every tri[i] != k
RECURSIVE PushTri(_, _, _)
PushTri(list, tri, k) ==
    IF tri = <<>> THEN list
    ELSE PushTri(IF Head(tri) # k THEN Append(list, Head(tri)) ELSE list,
                 Tail(tri), k)

TriNeighbours(st, k) ==
    LET tk == At(st.t, k)
        l0 == PushTri(At(st.voisins, k), getTri(st.t, tk.v[1].num, 0), k)
        l1 == PushTri(l0, getTri(st.t, tk.v[2].num, 0), k)
        l2 == PushTri(l1, getTri(st.t, tk.v[3].num, 0), k)
    IN  [st EXCEPT !.voisins = Put(@, k, l2)]

\* mutant: ++n instead of n++
NewMidpointNum_PreInc(nn) == nn + 1

\* the index the new midpoint gets: M[key].first = n++
NewMidpointNum(nn) == nn

\* the triangle recorded as owner of a new edge: M[key].second = k
EdgeOwner(k) == k

\* the coordinates of milieu: ((x0+x1)/2, (y0+y1)/2)
Milieu(p, q) ==
    [VertexDefault EXCEPT !.x = (p.x + q.x) \div 2, !.y = (p.y + q.y) \div 2]

\* mutant: the edge that starts at corner a
OppositeCorners_Adjacent(a) == <<a, (a + 1) % 3>>

\* the edge of triangle tk opposite to corner a: corners (a+1)%3 and (a+2)%3
OppositeCorners(a) == <<(a + 1) % 3, (a + 2) % 3>>

\* one pass of the body of  for(k) for(a)
MilIter(st, ME, k, a, var) ==
    LET tk     == At(st.t, k)
        ia     == OppositeCorners(a)[1]
        ib     == OppositeCorners(a)[2]
        c1     == At(tk.v, ia)
        c2     == At(tk.v, ib)
        key    == EdgeKey(c1.num, c2.num)
        cree   == key \notin DOMAIN st.M
        Mk     == IF cree
                  THEN (key :> [first  |-> NewMidpointNum(st.n),
                                second |-> EdgeOwner(k)]) @@ st.M
                  ELSE st.M
        n1     == IF cree THEN st.n + 1 ELSE st.n
        vo1    == CASE var = "mesh" ->
                         SortUniqueAll(TouchLoop(st.voisins, Mk,
                                           KeysInOrder(DOMAIN Mk), key, k))
                    [] var = "gmsh" ->
                         IF cree THEN st.voisins
                         ELSE PushBoth(st.voisins, k, Mk[key].second)
                    [] OTHER -> st.voisins
        mil1   == [Milieu(At(st.v, key[1]), At(st.v, key[2]))
                      EXCEPT !.num = Mk[key].first]
        onB    == key \in DOMAIN ME
        mil2   == IF onB THEN [mil1 EXCEPT !.lab = ME[key]] ELSE mil1
        tv     == IF onB
                  THEN Put(Put(tk.v, ia, [c1 EXCEPT !.lab = ME[key]]),
                           ib, [c2 EXCEPT !.lab = ME[key]])
                  ELSE tk.v
        tk1    == [tk EXCEPT !.v = tv, !.mil = Put(@, a, mil2)]
        ts1    == IF var = "tri" /\ onB /\ ME[key] = 30
                  THEN Append(st.triangleSortie, k)
                  ELSE st.triangleSortie
        st1    == [v |-> IF cree THEN Append(st.v, mil2) ELSE st.v,
                   t |-> Put(st.t, k, tk1),
                   M |-> Mk,
                   n |-> n1,
                   voisins |-> vo1,
                   triangleSortie |-> ts1]
    IN  IF var = "tri" /\ a = 2 THEN TriNeighbours(st1, k) ELSE st1

RECURSIVE MilLoop(_, _, _, _)
MilLoop(st, ME, s, var) ==
    IF s >= 3 * Len(st.t) THEN st
    ELSE MilLoop(MilIter(st, ME, s \div 3, s % 3, var), ME, s + 1, var)

\* int Mesh2d::PointsMil(): the new mesh fields and the returned n
PointsMil(var, vv, tt, ee, vo, nvv) ==
    LET b   == BoundaryLoop([ME |-> <<>>, v |-> vv], ee, 0, var)
        st0 == [v |-> b.v, t |-> tt, M |-> <<>>, n |-> nvv,
                voisins |-> vo, triangleSortie |-> <<>>]
        st1 == MilLoop(st0, b.ME, 0, var)
    IN  IF var = "tri"
        THEN [st1 EXCEPT !.voisins = SortUniqueAll(@)]
        ELSE st1

---------------------------------------------------------------------------
(* Point location: RecupVoisins *)

\* the value of PtNv after  PtNv.x = PtNv.y = sqrt(-1.)
NaNPoint == [xn |-> 0, yn |-> 0, d |-> 0, nan |-> TRUE]

\* loc before any call
NoCall ==
    [triangle |-> -1, PtInterp |-> <<0, 0>>, vois |-> -1, PtNv |-> NaNPoint,
     evals |-> 0, areas |-> <<0, 0, 0>>]

\* an R2 / Vertex with the coordinates of the pair P
R2(P) == [x |-> P[1], y |-> P[2]]

\* mutant: the arguments of the second determinant are exchanged
Areas_Exchanged(tk, P) ==
    <<det(R2(P), tk.v[2], tk.v[3]),
      det(R2(P), tk.v[1], tk.v[3]),
      det(tk.v[1], tk.v[2], R2(P))>>

\* area0, area1, area2 of RecupVoisins, each times 2 (the factor 0.5 of the
\* code is left out: it changes no sign)
Areas(tk, P) ==
    <<det(R2(P), tk.v[2], tk.v[3]),
      det(tk.v[1], R2(P), tk.v[3]),
      det(tk.v[1], tk.v[2], R2(P))>>

\* double min(double x, double y, double z)
min(x, y, z) ==
    LET m == IF x < y THEN x ELSE y
    IN  IF m < z THEN m ELSE z

\* rm >= 0
Inside(tk, P) == min(Areas(tk, P)[1], Areas(tk, P)[2], Areas(tk, P)[3]) >= 0

\* PtNv: the exact fractions xn/d and yn/d that (1/d)*(...) rounds
RefCoords(tk, P) ==
    LET v0x == tk.v[1].x
        v0y == tk.v[1].y
        v1x == tk.v[2].x
        v1y == tk.v[2].y
        v2x == tk.v[3].x
        v2y == tk.v[3].y
        x   == P[1]
        y   == P[2]
    IN  [xn  |-> (v2y - v0y) * (x - v0x) + (v0x - v2x) * (y - v0y),
         yn  |-> (v0y - v1y) * (x - v0x) + (v1x - v0x) * (y - v0y),
         d   |-> (v1x - v0x) * (v2y - v0y) - (v1y - v0y) * (v2x - v0x),
         nan |-> FALSE]

\* mutant: every triangle of the mesh is searched
NeighbourList_WholeMesh(vo, triangle) == [i \in 1..Len(vo) |-> i - 1]

\* Th.voisins[triangle], the list the for loop runs over
NeighbourList(vo, triangle) == At(vo, triangle)

\* the for loop over the neighbours; cnt counts the inside tests made
RECURSIVE ScanVoisins(_, _, _, _, _)
ScanVoisins(tt, list, i, P, cnt) ==
    IF i >= Len(list)
    THEN [vois |-> -1, PtNv |-> NaNPoint, evals |-> cnt]
    ELSE LET j == At(list, i)
         IN  IF Inside(At(tt, j), P)
             THEN [vois |-> j, PtNv |-> RefCoords(At(tt, j), P),
                   evals |-> cnt + 1]
             ELSE ScanVoisins(tt, list, i + 1, P, cnt + 1)

\* int RecupVoisins(Mesh2d & Th, int triangle, R2 PtInterp, R2 & PtNv)
RecupVoisins(tt, vo, triangle, P) ==
    IF Inside(At(tt, triangle), P)
    THEN [vois |-> triangle, PtNv |-> RefCoords(At(tt, triangle), P),
          evals |-> 1]
    ELSE ScanVoisins(tt, NeighbourList(vo, triangle), 0, P, 1)

\* the points handed to RecupVoisins
Grid == {<<x, y>> : x \in (-1)..GridMax, y \in (-1)..GridMax}

\* mesh files used for point location: a strip of four counter-clockwise
\* triangles, the reference triangle alone, two triangles without a common
\* corner, and a square whose first triangle is clockwise
LocFiles ==
    { MeshFile(6, << <<1, 2, 3>>, <<1, 3, 4>>, <<2, 5, 6>>, <<2, 6, 3>> >>,
               <<>>),
      MeshFile(4, << <<1, 2, 4>> >>, <<>>),
      MeshFile(6, << <<1, 2, 4>>, <<5, 6, 3>> >>, <<>>),
      MeshFile(4, << <<1, 3, 2>>, <<1, 3, 4>> >>, SquareBoundary) }

\* vois = RecupVoisins(Th, k, PointCaract, PointCaractRef)
CallRecupVoisins ==
    /\ pc = "mil"
    /\ \E triangle \in 0..(nbt - 1), P \in Grid :
          LET r == RecupVoisins(t, voisins, triangle, P)
          IN  loc' = [triangle |-> triangle, PtInterp |-> P,
                      vois |-> r.vois, PtNv |-> r.PtNv, evals |-> r.evals,
                      areas |-> Areas(At(t, triangle), P)]
    /\ pc' = "located"
    /\ UNCHANGED <<meshVars, trace, basis, nsVars>>

---------------------------------------------------------------------------
(* Shape functions: lambda, PartialLamb, Phi, PartialPhi *)

\* A point of the reference plane is the pair P of numerators over the
\* denominator d, a power of two, so that every product below is exact in
\* double arithmetic; a value of degree m in P is kept times d^m.

\* mutant: lambda(0,P) forgets P.y
lambda_NoY(i, P, d) ==
    IF i = 0 THEN d - P[1]
    ELSE IF i = 1 THEN P[1]
    ELSE P[2]

\* double lambda(int i, R2 P), times d
lambda(i, P, d) ==
    IF i = 0 THEN d - P[1] - P[2]
    ELSE IF i = 1 THEN P[1]
    ELSE P[2]

\* int PartialLamb(int i, int ind)
PartialLamb(i, ind) ==
    IF i = 0 THEN -1
    ELSE IF (i = 1 /\ ind = 0) \/ (i = 2 /\ ind = 1) THEN 1
    ELSE 0

\* mutant: the indices of Phi are shifted by one
PhiPair_Shifted(i) == <<i % 3, (i - 1) % 3>>

\* the indices (i-1)%3 and (i-2)%3 of the two lambda in Phi, i >= 3
PhiPair(i) == <<(i - 1) % 3, (i - 2) % 3>>

\* the indices (i+1)%3 and (i+2)%3 of the two lambda in PartialPhi, i >= 3
PartialPhiPair(i) == <<(i + 1) % 3, (i + 2) % 3>>

\* double Phi(int i, R2 P), times d^2
Phi(i, P, d) ==
    IF i < 3 THEN lambda(i, P, d) * (2 * lambda(i, P, d) - d)
    ELSE 4 * lambda(PhiPair(i)[1], P, d) * lambda(PhiPair(i)[2], P, d)

\* double PartialPhi(int i, int ind, R2 P), times d
PartialPhi(i, ind, P, d) ==
    IF i < 3 THEN (4 * lambda(i, P, d) - d) * PartialLamb(i, ind)
    ELSE 4 * (lambda(PartialPhiPair(i)[1], P, d)
                * PartialLamb(PartialPhiPair(i)[2], ind)
              + lambda(PartialPhiPair(i)[2], P, d)
                * PartialLamb(PartialPhiPair(i)[1], ind))

\* basis before the shape functions are taken anywhere
NoBasis ==
    [P |-> <<0, 0>>, d |-> 0, phi |-> <<>>, dphi |-> <<>>]

---------------------------------------------------------------------------
(* Local matrix: BuildMatNS *)

\* double nu = 0.0025, kept as the denominator of nu = 1/NuInv
NuInv == 400

\* double dt = 0.1; double alpha = 1./dt
AlphaNS == 10

\* The sums over the 7 quadrature points of BuildMatNS, evaluated exactly (the
\* rule integrates polynomials of degree <= 5 exactly and the integrands have
\* degree <= 4); rows and columns are the local P2 functions 0..5.
\* 180 * sum_k Poids[k]*Phi(j,PtsRef[k])*Phi(i,PtsRef[k])
MassSum ==
    << << 6, -1, -1, -4,  0,  0>>,
       <<-1,  6, -1,  0, -4,  0>>,
       <<-1, -1,  6,  0,  0, -4>>,
       <<-4,  0,  0, 32, 16, 16>>,
       << 0, -4,  0, 16, 32, 16>>,
       << 0,  0, -4, 16, 16, 32>> >>

\* 3 * sum_k Poids[k]*PartialPhi(i,0,PtsRef[k])*PartialPhi(j,0,PtsRef[k])
DxDxSum ==
    << << 3,  1,  0,  0,  0, -4>>,
       << 1,  3,  0,  0,  0, -4>>,
       << 0,  0,  0,  0,  0,  0>>,
       << 0,  0,  0,  8, -8,  0>>,
       << 0,  0,  0, -8,  8,  0>>,
       <<-4, -4,  0,  0,  0,  8>> >>

\* 3 * sum_k Poids[k]*(PartialPhi(i,1,.)*PartialPhi(j,0,.)
\*                     + PartialPhi(i,0,.)*PartialPhi(j,1,.))
DxDySum ==
    << << 6,  1,  1,  0, -4, -4>>,
       << 1,  0, -1,  4,  0, -4>>,
       << 1, -1,  0,  4, -4,  0>>,
       << 0,  4,  4,  8, -8, -8>>,
       <<-4,  0, -4, -8,  8,  8>>,
       <<-4, -4,  0, -8,  8,  8>> >>

\* 3 * sum_k Poids[k]*PartialPhi(i,1,PtsRef[k])*PartialPhi(j,1,PtsRef[k])
DyDySum ==
    << << 3,  0,  1,  0, -4,  0>>,
       << 0,  0,  0,  0,  0,  0>>,
       << 1,  0,  3,  0, -4,  0>>,
       << 0,  0,  0,  8,  0, -8>>,
       <<-4,  0, -4,  0,  8,  0>>,
       << 0,  0,  0, -8,  0,  8>> >>

\* 3 * sum_k Poids[k]*PartialPhi(i,0,PtsRef[k])*lambda(j,PtsRef[k])
DxLambdaSum ==
    << <<-1,  0,  0>>,
       << 0,  1,  0>>,
       << 0,  0,  0>>,
       << 1,  1,  2>>,
       <<-1, -1, -2>>,
       << 1, -1,  0>> >>

\* 3 * sum_k Poids[k]*PartialPhi(i,1,PtsRef[k])*lambda(j,PtsRef[k])
DyLambdaSum ==
    << <<-1,  0,  0>>,
       << 0,  0,  0>>,
       << 0,  0,  1>>,
       << 1,  2,  1>>,
       << 1,  0, -1>>,
       <<-1, -2, -1>> >>

\* double J[2][2], in the length unit of the model
Jacobian(K) ==
    << << K.v[3].y - K.v[1].y, K.v[1].y - K.v[2].y >>,
       << K.v[1].x - K.v[3].x, K.v[2].x - K.v[1].x >> >>

\* block C: A[i][j] times the positive factor 180*NuInv*2*area2
\*   A[i][j] = coeff1*Mass + coeff*(acoef*DxDx + bcoef*DxDy + ccoef*DyDy)
\* with coeff1 = alpha*areak and coeff = nu/(4*areak)
BlockC(K, alpha, i, j) ==
    LET J     == Jacobian(K)
        acoef == J[1][1] * J[1][1] + J[2][1] * J[2][1]
        bcoef == J[1][1] * J[1][2] + J[2][1] * J[2][2]
        ccoef == J[1][2] * J[1][2] + J[2][2] * J[2][2]
    IN  alpha * NuInv * K.area2 * K.area2 * MassSum[i + 1][j + 1]
        + 960 * (acoef * DxDxSum[i + 1][j + 1]
                 + bcoef * DxDySum[i + 1][j + 1]
                 + ccoef * DyDySum[i + 1][j + 1])

\* blocks B1 (row = 0) and B2 (row = 1): A[i][12+j] times the factor 24
\*   A[i][j] = -(1./2) * sum_k Poids[k]*(J[row][0]*dx + J[row][1]*dy)*lambda
BlockB(K, row, i, j) ==
    LET J == Jacobian(K)
    IN  -(J[row + 1][1] * DxLambdaSum[i + 1][j + 1]
          + J[row + 1][2] * DyLambdaSum[i + 1][j + 1])

\* block -eps: A[i][i] = -(10e-8), the sign only
BlockEps(i, j) == IF i = j THEN -1 ELSE 0

\* void BuildMatNS(Th, alpha, nu, A, cpt): every entry of A up to a positive
\* factor (one factor per block), which is what the test
\* fabs(A[il][jl]) > 1e-15 of the scatter depends on
BuildMatNS(K, alpha) ==
    [il \in 0..14 |-> [jl \in 0..14 |->
        CASE il < 6 /\ jl < 6 -> BlockC(K, alpha, il, jl)
          [] il \in 6..11 /\ jl \in 6..11 -> BlockC(K, alpha, il - 6, jl - 6)
          [] il < 6 /\ jl >= 12 -> BlockB(K, 0, il, jl - 12)
          [] il >= 12 /\ jl < 6 -> BlockB(K, 0, jl, il - 12)
          [] il \in 6..11 /\ jl >= 12 -> BlockB(K, 1, il - 6, jl - 12)
          [] il >= 12 /\ jl \in 6..11 -> BlockB(K, 1, jl - 6, il - 12)
          [] il >= 12 /\ jl >= 12 -> BlockEps(il - 12, jl - 12)
          [] OTHER -> 0]]

---------------------------------------------------------------------------
(* Global system: resolution_Stokes *)

\* A double of the map M or of the vector b is kept as the record
\* [tgv, terms]: tgv times the penalty tgv = 10e30 plus the sum, in this
\* order, of the terms; a term names the local quantity it stands for.
\* b[i] = 0 and the value a new map entry starts from
Zero == [tgv |-> 0, terms |-> <<>>]

\* x += a: next to a penalty the addend is below half an ulp and is lost
AddTerm(x, term) ==
    IF x.tgv # 0 THEN x ELSE [x EXCEPT !.terms = Append(@, term)]

\* mutant: M[key] += tgv
Penalty_Accumulate(old) == [tgv |-> old.tgv + 1, terms |-> <<>>]

\* M[key] = tgv
Penalty(old) == [tgv |-> 1, terms |-> <<>>]

\* int Mesh2d::operator()(int k, int i)
Th(tt, k, i) ==
    IF i < 3 THEN At(At(tt, k).v, i).num ELSE At(At(tt, k).mil, i - 3).num

\* mutant: the pressure block starts at n
DofIndex_PressureAtN(tt, nn, k, il) ==
    IF il < 6 THEN Th(tt, k, il)
    ELSE IF il < 12 THEN Th(tt, k, il - 6) + nn
    ELSE Th(tt, k, il - 12) + nn

\* the global index of local dof il of triangle k
DofIndex(tt, nn, k, il) ==
    IF il < 6 THEN Th(tt, k, il)
    ELSE IF il < 12 THEN Th(tt, k, il - 6) + nn
    ELSE Th(tt, k, il - 12) + 2 * nn

\* x += a for every term a of the sequence, first to last
RECURSIVE AddTerms(_, _)
AddTerms(x, terms) ==
    IF terms = <<>> THEN x
    ELSE AddTerms(AddTerm(x, Head(terms)), Tail(terms))

\* the elements of a set of loop passes in the order in which the loops
\* reach them (field ord)
RECURSIVE InLoopOrder(_)
InLoopOrder(S) ==
    IF S = {} THEN <<>>
    ELSE LET c == CHOOSE c \in S : \A d \in S : c.ord <= d.ord
         IN  <<c.term>> \o InLoopOrder(S \ {c})

\* the passes of the loops  for(k) for(il) for(jl)  that reach
\* M[make_pair(i,j)] += A[il][jl], i.e. with fabs(A[il][jl]) > 1e-15
Scattered(tt, nn, alpha) ==
    LET A == [k \in 0..(Len(tt) - 1) |-> BuildMatNS(At(tt, k), alpha)]
    IN  { [ord  |-> 225 * c[1] + 15 * c[2] + c[3],
           key  |-> <<DofIndex(tt, nn, c[1], c[2]),
                      DofIndex(tt, nn, c[1], c[3])>>,
           term |-> [k |-> c[1], il |-> c[2], jl |-> c[3],
                     alpha |-> alpha]] :
          c \in { d \in (0..(Len(tt) - 1)) \X (0..14) \X (0..14) :
                    A[d[1]][d[2]][d[3]] # 0 } }

\* the assembly loop of resolution_Stokes: every entry of the map after all
\* the M[make_pair(i,j)] += A[il][jl]; operator[] creates a missing entry
\* with the value 0
Assemble(M, tt, nn, alpha) ==
    LET S    == Scattered(tt, nn, alpha)
        keys == { c.key : c \in S }
    IN  [key \in (DOMAIN M) \cup keys |->
            AddTerms(IF key \in DOMAIN M THEN M[key] ELSE Zero,
                     InLoopOrder({ c \in S : c.key = key }))]

\* mutant: the map is assembled at every call
Assembles_Always(MapExiste) == TRUE

\* if (MapExiste == 0) before the assembly
Assembles(MapExiste) == MapExiste = 0

\* if (MapExiste == 0) before the stamping of the diagonal
StampsMatrix(MapExiste) == MapExiste = 0

\* double g(Vertex P, int label): (1-y)*(y-0.5)*16 for label 10
g(P, label) == IF label = 10 THEN (4 - P.y) * (P.y - 2) ELSE 0

\* Th.t[k].v[il] for il < 3, Th.t[k].mil[il-3] otherwise
LocalNode(tt, k, il) ==
    IF il < 3 THEN At(At(tt, k).v, il) ELSE At(At(tt, k).mil, il - 3)

\* lab[il] == 10 || lab[il] == 20 || lab[il] == 40
IsDirichlet(lab) == lab = 10 \/ lab = 20 \/ lab = 40

\* the empty vector<double> xprec of main; a field is named by the number of
\* the solve that produced it
NoField == 0

\* mutant: the vector is shared with the caller and overwritten while the
\* loops run, so the triangles after the first read another field
CaractPasses_Overwritten(tt, nn, xp) ==
    { [ord  |-> 15 * c[1] + c[2],
       i    |-> DofIndex(tt, nn, c[1], c[2]),
       term |-> [k |-> c[1], il |-> c[2],
                 xprec |-> IF c[1] = 0 THEN xp ELSE xp + 1]] :
      c \in (0..(Len(tt) - 1)) \X (0..14) }

\* CalculCaracteristique(Th, alpha, xprec, n, b): the passes of the loops
\* for(k) for(il)  with the index i they write
CaractPasses(tt, nn, xp) ==
    { [ord  |-> 15 * c[1] + c[2],
       i    |-> DofIndex(tt, nn, c[1], c[2]),
       term |-> [k |-> c[1], il |-> c[2], xprec |-> xp]] :
      c \in (0..(Len(tt) - 1)) \X (0..14) }

\* b after the loops: b[i] += alpha*areak*c for i < 2n, in the order of the
\* loops, and b[i] = 0 for the pressure.  The term names the triangle, the
\* test function and the field that is traced back.
CaractLoop(b, tt, nn, xp) ==
    LET S == CaractPasses(tt, nn, xp)
    IN  [j \in 1..Len(b) |->
            IF j - 1 < 2 * nn
            THEN AddTerms(b[j], InLoopOrder({ c \in S : c.i = j - 1 }))
            ELSE IF \E c \in S : c.i = j - 1 THEN Zero ELSE b[j]]

\* the assertions of CalculCaracteristique: xprec.size() > 0, alpha > 0,
\* Th.voisins[k].size() > 0, and those on the interpolated velocity and on
\* the triangle found, whose outcome (inRange) depends on the values of xprec
CaractAsserts(vo, alpha, xp, inRange) ==
    /\ xp # NoField
    /\ alpha > 0
    /\ \A k \in 1..Len(vo) : vo[k] # <<>>
    /\ inRange

CalculCaracteristique(tt, vo, alpha, xp, nn, b, inRange) ==
    [ok |-> CaractAsserts(vo, alpha, xp, inRange),
     b  |-> CaractLoop(b, tt, nn, xp)]

\* the body of the boundary-condition loop for local node il of triangle k
StampNode(st, tt, nn, MapExiste, k, il) ==
    LET node == LocalNode(tt, k, il)
        lab  == node.lab
        i1   == Th(tt, k, il)
        i2   == Th(tt, k, il) + nn
        key1 == <<i1, i1>>
        key2 == <<i2, i2>>
        Ma   == IF key1 \in DOMAIN st.M
                THEN [st.M EXCEPT ![key1] = Penalty(@)]
                ELSE st.M
        Mb   == IF key2 \in DOMAIN Ma
                THEN [Ma EXCEPT ![key2] = Penalty(@)]
                ELSE Ma
        b1   == Put(st.b, i1, [tgv |-> g(node, lab), terms |-> <<>>])
    IN  IF IsDirichlet(lab)
        THEN [M |-> IF StampsMatrix(MapExiste) THEN Mb ELSE st.M,
              b |-> Put(b1, i2, Zero)]
        ELSE st

\* for (k) for (il < 6): the boundary conditions
RECURSIVE Stamping(_, _, _, _, _)
Stamping(st, tt, nn, MapExiste, s) ==
    IF s >= 6 * Len(tt) THEN st
    ELSE Stamping(StampNode(st, tt, nn, MapExiste, s \div 6, s % 6),
                  tt, nn, MapExiste, s + 1)

\* mutant: the boundary conditions are stamped before the characteristics
\* are added to b
resolution_Stokes_StampFirst(tt, vo, nvv, alpha, M, nn, xp, NS, MapExiste, inRange) ==
    LET b0  == [i \in 1..(2 * nn + nvv) |-> Zero]
        Ma  == IF Assembles(MapExiste) THEN Assemble(M, tt, nn, alpha)
               ELSE M
        st  == Stamping([M |-> Ma, b |-> b0], tt, nn, MapExiste, 0)
        car == IF NS = 1
               THEN CalculCaracteristique(tt, vo, alpha, xp, nn, st.b,
                                          inRange)
               ELSE [ok |-> TRUE, b |-> st.b]
    IN  IF car.ok THEN [ok |-> TRUE, M |-> st.M, b |-> car.b]
        ELSE [ok |-> FALSE, M |-> Ma, b |-> car.b]

\* vector<double> resolution_Stokes(Th, alpha, nu, M, n, xprec, NS, MapExiste)
\* up to the call of the solver: the map M, the right-hand side b, and
\* whether the assertions of CalculCaracteristique let the call go on
resolution_Stokes(tt, vo, nvv, alpha, M, nn, xp, NS, MapExiste, inRange) ==
    LET b0  == [i \in 1..(2 * nn + nvv) |-> Zero]
        Ma  == IF Assembles(MapExiste) THEN Assemble(M, tt, nn, alpha)
               ELSE M
        car == IF NS = 1
               THEN CalculCaracteristique(tt, vo, alpha, xp, nn, b0,
                                          inRange)
               ELSE [ok |-> TRUE, b |-> b0]
        st  == Stamping([M |-> Ma, b |-> car.b], tt, nn, MapExiste, 0)
    IN  IF car.ok THEN [ok |-> TRUE, M |-> st.M, b |-> st.b]
        ELSE [ok |-> FALSE, M |-> Ma, b |-> car.b]

---------------------------------------------------------------------------
(* Compression of the map into the arrays of the solver *)

\* the elements of a finite set of integers in ascending order: the order in
\* which the iterator of the std::map meets the second key components of the
\* entries with one first component
RECURSIVE Ascending(_)
Ascending(S) ==
    IF S = {} THEN <<>>
    ELSE LET m == CHOOSE x \in S : \A y \in S : x <= y
         IN  <<m>> \o Ascending(S \ {m})

\* the values AI[cpt] = it->first.second written, in this order, while the
\* iterator of M is at the entries whose first component is i
Segment(M, i) == Ascending({ q[2] : q \in { r \in DOMAIN M : r[1] = i } })

\* the single pass of resolution_Stokes over M, up to the entries with first
\* component < i: AI[cpt] = j, Ax[cpt] = value, Ap[i+1] = ++cpt.  Ap comes
\* from new int[taille+1] and only Ap[0] is set before the loop: an entry
\* Ap[i+1] that no iteration writes keeps an indeterminate value, junk[i+1].
\* Ap, AI and Ax are 0-based (see At).
RECURSIVE Passed(_, _, _)
Passed(M, i, junk) ==
    IF i = 0 THEN [cpt |-> 0, AI |-> <<>>, Ax |-> <<>>, Ap |-> <<0>>,
                   written |-> {0}]
    ELSE LET before == Passed(M, i - 1, junk)
             seg    == Segment(M, i - 1)
         IN  [cpt |-> before.cpt + Len(seg),
              AI  |-> before.AI \o seg,
              Ax  |-> before.Ax
                      \o [p \in 1..Len(seg) |-> M[<<i - 1, seg[p]>>]],
              Ap  |-> Append(before.Ap,
                             IF seg # <<>> THEN before.cpt + Len(seg)
                             ELSE junk[i]),
              written |-> IF seg # <<>> THEN before.written \cup {i}
                          ELSE before.written]

Compress(M, taille, junk) == Passed(M, taille, junk)

\* the older resolution_Stokes of MatNS.hpp: for every column j a pass over
\* M that takes the entries with second component j, AI[cpt] = first
\* component, and Ap[j+1] = Ap[j] + cpt2
RECURSIVE PassedColumns(_, _)
PassedColumns(M, j) ==
    IF j = 0 THEN [cpt |-> 0, AI |-> <<>>, Ax |-> <<>>, Ap |-> <<0>>]
    ELSE LET before == PassedColumns(M, j - 1)
             col    == Ascending({ q[1] : q \in { r \in DOMAIN M :
                                                    r[2] = j - 1 } })
         IN  [cpt |-> before.cpt + Len(col),
              AI  |-> before.AI \o col,
              Ax  |-> before.Ax
                      \o [p \in 1..Len(col) |-> M[<<col[p], j - 1>>]],
              Ap  |-> Append(before.Ap, At(before.Ap, j - 1) + Len(col))]

CompressByColumn(M, taille) ==
    [AI |-> PassedColumns(M, taille).AI,
     Ax |-> PassedColumns(M, taille).Ax,
     Ap |-> PassedColumns(M, taille).Ap,
     written |-> 0..taille]

\* values an int of new int[...] that was never written may hold
Garbage == {-1, 0, 3}

\* the contents of the unwritten entries of Ap: one indeterminate value each
JunkChoices(taille) ==
    { [c \in 1..taille |-> IF c % 2 = 0 THEN g0 ELSE g1] :
        g0 \in Garbage, g1 \in Garbage }

---------------------------------------------------------------------------
(* CalculCaracteristique: one quadrature point traced back *)

\* the right edge of the domain, PointCaract.x = 10, in units of 1/4
RightEdge == 40

\* the heights 0.5 and 1 that bound the inflow section, in units of 1/4
InflowLow == 2

InflowHigh == 4

\* the height 1 of the top wall at the right edge, in units of 1/4
ChannelTop == 4

\* mutant: every triangle of the mesh is examined
ExitList_WholeMesh(tt, ts) == [i \in 1..Len(tt) |-> i - 1]

\* Th.triangleSortie, the list the for loop of find_triangle runs over
ExitList(tt, ts) == ts

\* the for loop of find_triangle from position i on: the triangle returned
\* and the triangles whose three areas were computed, in this order
RECURSIVE ScanSortie(_, _, _, _)
ScanSortie(tt, list, i, nvPt) ==
    IF i >= Len(list) THEN [vois |-> -1, examined |-> <<>>]
    ELSE LET j == At(list, i)
         IN  IF Inside(At(tt, j), nvPt)
             THEN [vois |-> j, examined |-> <<j>>]
             ELSE LET r == ScanSortie(tt, list, i + 1, nvPt)
                  IN  [r EXCEPT !.examined = <<j>> \o @]

\* int find_triangle(R2 nvPt, Mesh2d & Th)
find_triangle(nvPt, tt, ts) == ScanSortie(tt, ExitList(tt, ts), 0, nvPt)

\* mutant: the height is not brought back to the inflow section
ClampInflow_None(y) == y

\* if (y < 0.5) y = 0.5; else if (y <= 1) y = y; else y = 1
ClampInflow(y) ==
    IF y < InflowLow THEN InflowLow
    ELSE IF y <= InflowHigh THEN y
    ELSE InflowHigh

\* mutant: the right edge itself counts as beyond the domain
NotBeyondRight_Strict(x) == x < RightEdge

\* else if (PointCaract.x <= 10)
NotBeyondRight(x) == x <= RightEdge

\* mutant: the result of find_triangle is not asserted
ExitFound_Unchecked(vois) == TRUE

\* assert(vois >= 0) after find_triangle
ExitFound(vois) == vois >= 0

\* u1pInterp2[ps] or u2pInterp2[ps]: a value that does not depend on xprec
Value(val) == [interp |-> FALSE, val |-> val, tri |-> -1, at |-> NaNPoint]

\* vitesseInterpolee(uInterp, PointCaractRef) after recup(Th.t[tri], xprec, ..)
Interpolated(tri, at) == [interp |-> TRUE, val |-> 0, tri |-> tri, at |-> at]

\* trace before any quadrature point is traced
NoTrace ==
    [k |-> -1, ps |-> -1, P |-> <<0, 0>>, below3 |-> TRUE,
     asserted |-> FALSE, ok |-> FALSE,
     vois0 |-> -1, vois |-> -1, PointCaract |-> <<0, 0>>,
     PointCaractRef |-> NaNPoint, boolRecup |-> 0,
     searched |-> FALSE, examined |-> <<>>,
     u1 |-> Value(0), u2 |-> Value(0)]

\* assert(alpha > 0); assert(Th.voisins[k].size() > 0);
\* assert(u1pInterp[ps] < 3 && u2pInterp[ps] < 3), the last one depending on
\* the values of xprec (below3)
TraceAsserts(vo, k, alpha, below3) ==
    /\ alpha > 0
    /\ At(vo, k) # <<>>
    /\ below3

\* the body of the loop on ps from RecupVoisins on, for the quadrature point
\* of triangle k whose foot of the characteristic is P
TracePoint(tt, vo, ts, k, P) ==
    LET r    == RecupVoisins(tt, vo, k, P)
        base == [NoTrace EXCEPT !.k = k, !.P = P, !.asserted = TRUE,
                                !.ok = TRUE, !.vois0 = r.vois,
                                !.vois = r.vois, !.PointCaract = P,
                                !.PointCaractRef = r.PtNv]
        zero == [base EXCEPT !.u1 = Value(0), !.u2 = Value(0)]
    IN  IF r.vois >= 0
        THEN [base EXCEPT !.boolRecup = 1,
                          !.u1 = Interpolated(r.vois, r.PtNv),
                          !.u2 = Interpolated(r.vois, r.PtNv)]
        ELSE IF P[1] < 0
        THEN LET Q == <<0, ClampInflow(P[2])>>
             IN  [base EXCEPT !.PointCaract = Q,
                              !.u1 = Value(g(R2(Q), 10)),
                              !.u2 = Value(0)]
        ELSE IF NotBeyondRight(P[1])
        THEN zero
        ELSE LET Q == <<RightEdge, P[2]>>
             IN  IF Q[2] <= 0 \/ Q[2] >= ChannelTop
                 THEN [zero EXCEPT !.PointCaract = Q]
                 ELSE LET f == find_triangle(Q, tt, ts)
                      IN  [base EXCEPT
                             !.PointCaract = Q,
                             !.searched = TRUE,
                             !.examined = f.examined,
                             !.vois = f.vois,
                             !.ok = ExitFound(f.vois),
                             !.boolRecup = 1,
                             !.u1 = IF ExitFound(f.vois)
                                    THEN Interpolated(f.vois, r.PtNv)
                                    ELSE Value(0),
                             !.u2 = IF ExitFound(f.vois)
                                    THEN Interpolated(f.vois, r.PtNv)
                                    ELSE Value(0)]

---------------------------------------------------------------------------
(* The work arrays of CalculCaracteristique *)

\* for (int ps = 0; ps < 7; ps++): the quadrature points
NbQuad == 7

\* for (int i = 0; i < 6; i++) of recup and vitesseInterpolee: the P2 nodes
NbLocal == 6

\* the lengths of the arrays: PtsRef[7], Poids[7] and the new[] expressions
Allocated ==
    [PtsRef       |-> 7, Poids        |-> 7,
     u1pk         |-> 6, u2pk         |-> 6,
     PointCaractX |-> 7, PointCaractY |-> 7,
     Point        |-> 7,
     u1pInterp    |-> 6, u2pInterp    |-> 6,
     u1pInterp2   |-> 7, u2pInterp2   |-> 7,
     phi          |-> 7]

Access(array, index) == [array |-> array, index |-> index]

\* recup(t, un, u1n, u2n, n): u1n[i] and u2n[i] for i < 6
recup(u1n, u2n) ==
    { Access(a, i) : a \in {u1n, u2n}, i \in 0..(NbLocal - 1) }

\* vitesseInterpolee(un, PtInterp): un[i] for i < 6
vitesseInterpolee(un) == { Access(un, i) : i \in 0..(NbLocal - 1) }

\* before the loop on ps: PointK(Th.t[k], PtsRef, Point) and
\* recup(Th.t[k], xprec, u1pk, u2pk, n)
BeforePasses ==
    { Access(a, ps) : a \in {"PtsRef", "Point"}, ps \in 0..(NbQuad - 1) }
      \cup recup("u1pk", "u2pk")

\* the elements read or written in the pass of the loop on ps recorded in
\* tr: the interpolation at PtsRef[ps], then, when the assertions hold, the
\* foot of the characteristic and the velocity there
PassAccesses(tr) ==
    { Access(a, tr.ps) : a \in {"u1pInterp", "u2pInterp", "PtsRef"} }
      \cup vitesseInterpolee("u1pk") \cup vitesseInterpolee("u2pk")
      \cup (IF tr.asserted
            THEN { Access(a, tr.ps) :
                     a \in {"PointCaractX", "PointCaractY", "Point"} }
            ELSE {})
      \cup (IF tr.asserted /\ tr.ok
            THEN { Access(a, tr.ps) : a \in {"u1pInterp2", "u2pInterp2"} }
            ELSE {})
      \cup (IF tr.asserted /\ tr.ok /\ tr.boolRecup = 1
            THEN recup("u1pInterp", "u2pInterp")
                   \cup vitesseInterpolee("u1pInterp")
                   \cup vitesseInterpolee("u2pInterp")
            ELSE {})

\* the loop on il after the seven passes: phi[ps], Poids[ps], PtsRef[ps],
\* u1pInterp2[ps] and u2pInterp2[ps]
TestLoopAccesses ==
    { Access(a, ps) :
        a \in {"phi", "Poids", "PtsRef", "u1pInterp2", "u2pInterp2"},
        ps \in 0..(NbQuad - 1) }

---------------------------------------------------------------------------
(* main *)

\* for (int t = 1; t < 80; t++)
NbSteps == 80

\* mutant: the loop runs while t <= 80
LoopContinues_Inclusive(tstep) == tstep <= NbSteps

\* the test t < 80 of the loop of main
LoopContinues(tstep) == tstep < NbSteps

\* the value of call before the first call of resolution_Stokes
NoResolution ==
    [NS |-> 0, MapExiste |-> 0, xprec |-> NoField, status |-> 0]

\* the values of status after umfpack_di_solve: UMFPACK_OK, the warning of a
\* singular matrix, an error
SolverStatus == {0, 1, -1}

\* what resolution_Stokes does with status after the three calls of the
\* solver: nothing, solution is filled from x and returned
Returns(status) == TRUE

\* Mesh2d Th(argv[1]): voisins.resize(nbt)
Loaded(f, var) ==
    /\ pc = "loaded"
    /\ variant = var
    /\ nv = f.nv
    /\ nbt = Len(f.tris)
    /\ nbe = Len(f.edges)
    /\ v = LoadV(f)
    /\ t = LoadT(f)
    /\ e = LoadE(f)
    /\ voisins = [k \in 1..Len(f.tris) |-> <<>>]
    /\ triangleSortie = <<>>
    /\ n = 0
    /\ loc = NoCall
    /\ trace = NoTrace
    /\ basis = NoBasis
    /\ M1 = <<>>
    /\ M2 = <<>>
    /\ xprec = NoField
    /\ X = NoField
    /\ rhs = <<>>
    /\ call = NoResolution
    /\ step = 0

\* int n = Th.PointsMil()
CallPointsMil ==
    /\ pc = "loaded"
    /\ LET r == PointsMil(variant, v, t, e, voisins, nv)
       IN  /\ v' = r.v
           /\ t' = r.t
           /\ voisins' = r.voisins
           /\ triangleSortie' = r.triangleSortie
           /\ n' = r.n
    /\ pc' = "mil"
    /\ UNCHANGED <<variant, nv, nbt, nbe, e, locVars, nsVars>>

vars == <<pc, meshVars, locVars, nsVars>>

Init == \E f \in MeshFiles(MaxTri), var \in Variants : Loaded(f, var)

Next == CallPointsMil

Spec == Init /\ [][Next]_vars

\* point location on a mesh after PointsMil
InitLoc == \E f \in LocFiles, var \in Variants : Loaded(f, var)

NextLoc == CallPointsMil \/ CallRecupVoisins

SpecLoc == InitLoc /\ [][NextLoc]_vars

\* X = resolution_Stokes(Th, 0, nu, M1, n, xprec, 0, 0); xprec = X
CallStokes ==
    /\ pc = "mil"
    /\ LET r == resolution_Stokes(t, voisins, nv, 0, M1, n, xprec, 0, 0, TRUE)
       IN  /\ M1' = r.M
           /\ rhs' = r.b
    /\ X' = X + 1
    /\ xprec' = X + 1
    /\ \E status \in SolverStatus :
          /\ Returns(status)
          /\ call' = [NS |-> 0, MapExiste |-> 0, xprec |-> xprec,
                      status |-> status]
    /\ pc' = "stokes"
    /\ UNCHANGED <<meshVars, locVars, M2, step>>

\* M2.clear(); X = resolution_Stokes(Th, alpha, nu, M2, n, xprec, 1, 0);
\* xprec = X; then the loop starts with t = 1
CallNavierStokes ==
    /\ pc = "stokes"
    /\ \E inRange \in BOOLEAN :
          LET r == resolution_Stokes(t, voisins, nv, AlphaNS, <<>>, n, xprec,
                                     1, 0, inRange)
          IN  /\ r.ok
              /\ M2' = r.M
              /\ rhs' = r.b
    /\ X' = X + 1
    /\ xprec' = X + 1
    /\ \E status \in SolverStatus :
          /\ Returns(status)
          /\ call' = [NS |-> 1, MapExiste |-> 0, xprec |-> xprec,
                      status |-> status]
    /\ step' = 1
    /\ pc' = "ns"
    /\ UNCHANGED <<meshVars, locVars, M1>>

\* for (t = 1; t < 80; t++):
\* X = resolution_Stokes(Th, alpha, nu, M2, n, xprec, 1, 1); xprec = X
TimeStep ==
    /\ pc = "ns"
    /\ LoopContinues(step)
    /\ \E inRange \in BOOLEAN :
          LET r == resolution_Stokes(t, voisins, nv, AlphaNS, M2, n, xprec,
                                     1, 1, inRange)
          IN  /\ r.ok
              /\ M2' = r.M
              /\ rhs' = r.b
    /\ X' = X + 1
    /\ xprec' = X + 1
    /\ \E status \in SolverStatus :
          /\ Returns(status)
          /\ call' = [NS |-> 1, MapExiste |-> 1, xprec |-> xprec,
                      status |-> status]
    /\ step' = step + 1
    /\ pc' = "ns"
    /\ UNCHANGED <<meshVars, locVars, M1>>

\* an assertion of CalculCaracteristique fails: the program aborts inside
\* resolution_Stokes, after the assembly when the call assembles
Abort ==
    /\ \/ pc = "stokes"
       \/ pc = "ns" /\ LoopContinues(step)
    /\ \E inRange \in BOOLEAN :
          LET MapExiste == IF pc = "stokes" THEN 0 ELSE 1
              r == resolution_Stokes(t, voisins, nv, AlphaNS,
                                     IF pc = "stokes" THEN <<>> ELSE M2,
                                     n, xprec, 1, MapExiste, inRange)
          IN  /\ ~r.ok
              /\ M2' = r.M
    /\ pc' = "aborted"
    /\ UNCHANGED <<meshVars, locVars, M1, X, xprec, rhs, call, step>>

\* return 0
Return ==
    /\ pc = "ns"
    /\ ~LoopContinues(step)
    /\ pc' = "done"
    /\ UNCHANGED <<meshVars, locVars, M1, M2, X, xprec, rhs, call, step>>

\* the mesh files of the flow runs: the unit square cut in two with its four
\* boundary sections, the 2 x 1 rectangle cut in four, a square without
\* boundary section, a square whose first triangle is clockwise, one
\* triangle alone and two triangles without a common corner
NSFiles ==
    { MeshFile(4, << <<1, 2, 3>>, <<1, 3, 4>> >>, SquareBoundary),
      MeshFile(6, << <<1, 2, 3>>, <<1, 3, 4>>, <<2, 5, 6>>, <<2, 6, 3>> >>,
               << <<1, 2, 20>>, <<2, 5, 20>>, <<5, 6, 30>>, <<6, 3, 40>>,
                  <<3, 4, 40>>, <<4, 1, 10>> >>),
      MeshFile(4, << <<1, 2, 4>>, <<2, 3, 4>> >>, <<>>),
      MeshFile(4, << <<1, 3, 2>>, <<1, 3, 4>> >>, SquareBoundary),
      MeshFile(4, << <<1, 2, 4>> >>, << <<4, 1, 10>>, <<1, 2, 20>> >>),
      MeshFile(6, << <<1, 2, 4>>, <<5, 6, 3>> >>,
               << <<4, 1, 10>>, <<5, 6, 30>> >>) }

InitNS == \E f \in NSFiles, var \in Variants : Loaded(f, var)

NextNS ==
    \/ CallPointsMil
    \/ CallStokes
    \/ CallNavierStokes
    \/ TimeStep
    \/ Abort
    \/ Return

SpecNS == InitNS /\ [][NextNS]_vars

\* the feet of characteristics tried: left of the domain, in it, on its right
\* edge and beyond it; below, in and above the channel
TraceGrid == {<<x, y>> : x \in {-1, 0, 2, 38, RightEdge, RightEdge + 1},
                         y \in (-1)..(ChannelTop + 1)}

\* the vertex lines of the last cells of the channel, 9 <= x <= 10
ExitSquare == << <<36, 0>>, <<40, 0>>, <<40, 4>>, <<36, 4>> >>

ExitFan == << <<36, 0>>, <<40, 0>>, <<40, 2>>, <<40, 4>>, <<36, 4>> >>

\* mesh files for the tracing: the last cell of the channel with its exit
\* edge; a fan whose right edge is made of two edges, only the lower one or
\* both labelled 30; the unit square at the inflow; one triangle alone
TraceFiles ==
    { MeshFileAt(ExitSquare, << <<1, 2, 3>>, <<1, 3, 4>> >>,
                 << <<1, 2, 20>>, <<2, 3, 30>>, <<3, 4, 40>> >>),
      MeshFileAt(ExitFan, << <<1, 2, 3>>, <<1, 3, 5>>, <<5, 3, 4>> >>,
                 << <<1, 2, 20>>, <<2, 3, 30>>, <<3, 4, 40>> >>),
      MeshFileAt(ExitFan, << <<1, 2, 3>>, <<1, 3, 5>>, <<5, 3, 4>> >>,
                 << <<2, 3, 30>>, <<3, 4, 30>>, <<4, 5, 40>> >>),
      MeshFile(4, << <<1, 2, 3>>, <<1, 3, 4>> >>, SquareBoundary),
      MeshFileAt(ExitSquare, << <<1, 2, 3>> >>, << <<2, 3, 30>> >>) }

\* one pass of the loop on ps in the first unsteady call: the assertions,
\* RecupVoisins and the treatment of a point that left the mesh
TraceBack ==
    /\ pc = "stokes"
    /\ \E k \in 0..(nbt - 1), ps \in 0..(NbQuad - 1), P \in TraceGrid,
          below3 \in BOOLEAN :
          LET r == TracePoint(t, voisins, triangleSortie, k, P)
          IN  IF TraceAsserts(voisins, k, AlphaNS, below3)
              THEN /\ trace' = [r EXCEPT !.ps = ps]
                   /\ pc' = IF r.ok THEN "traced" ELSE "aborted"
              ELSE /\ trace' = [NoTrace EXCEPT !.k = k, !.ps = ps, !.P = P,
                                              !.below3 = below3]
                   /\ pc' = "aborted"
    /\ UNCHANGED <<meshVars, loc, basis, nsVars>>

\* vois = find_triangle(nvPt, Th) for a point nvPt
CallFindTriangle ==
    /\ pc = "mil"
    /\ \E nvPt \in TraceGrid :
          LET f == find_triangle(nvPt, t, triangleSortie)
          IN  trace' = [NoTrace EXCEPT !.P = nvPt, !.PointCaract = nvPt,
                                       !.searched = TRUE,
                                       !.examined = f.examined,
                                       !.vois = f.vois]
    /\ pc' = "searched"
    /\ UNCHANGED <<meshVars, loc, basis, nsVars>>

InitTrace == \E f \in TraceFiles, var \in Variants : Loaded(f, var)

NextTrace ==
    \/ CallPointsMil
    \/ CallFindTriangle
    \/ CallStokes
    \/ TraceBack

SpecTrace == InitTrace /\ [][NextTrace]_vars

\* the largest numerator of the points at which the shape functions are taken
RefMax == 6

\* the points of the reference plane tried, in and around the reference
\* triangle, in halves and in quarters
RefGrid == {<<x, y>> : x \in (-2)..RefMax, y \in (-2)..RefMax}

RefDenominators == {2, 4}

\* Phi(i, P) and PartialPhi(i, ind, P) for all i and ind at one point
EvalPhi ==
    /\ pc = "loaded"
    /\ \E P \in RefGrid, d \in RefDenominators :
          basis' = [P    |-> P,
                    d    |-> d,
                    phi  |-> [i \in 1..6 |-> Phi(i - 1, P, d)],
                    dphi |-> [i \in 1..6 |->
                                <<PartialPhi(i - 1, 0, P, d),
                                  PartialPhi(i - 1, 1, P, d)>>]]
    /\ pc' = "evaluated"
    /\ UNCHANGED <<meshVars, loc, trace, nsVars>>

InitPhi ==
    \E var \in Variants :
        Loaded(MeshFile(4, << <<1, 2, 3>>, <<1, 3, 4>> >>, SquareBoundary),
               var)

NextPhi == EvalPhi

SpecPhi == InitPhi /\ [][NextPhi]_vars




---------------------------------------------------------------------------
(* Mesh topology: what the claims speak about *)

\* the triangles and local indices of the mesh, 0-based as in the code
Tris == 0..(nbt - 1)

AfterPointsMil == pc # "loaded"

Loc3 == 0..2

\* global number of corner a of triangle k, and its midpoint opposite to a
Corner(k, a) == At(At(t, k).v, a)

Mid(k, a) == At(At(t, k).mil, a)

\* the undirected edge of triangle k opposite to corner a, as a set of numbers
EdgeSet(k, a) == {Corner(k, (a + 1) % 3).num, Corner(k, (a + 2) % 3).num}

AllEdgeSets == {EdgeSet(k, a) : k \in Tris, a \in Loc3}

IsMeanOf(m, p, q) == 2 * m.x = p.x + q.x /\ 2 * m.y = p.y + q.y

InList(x, list) == \E i \in 1..Len(list) : list[i] = x

\* C1: after PointsMil two distinct triangles that share an undirected edge
\* hold for it midpoints with the same global index and the same coordinates,
\* the arithmetic mean of the coordinates of the two endpoints s1 and s2
C1_MidpointShared ==
    AfterPointsMil =>
        \A k \in Tris, j \in Tris, a \in Loc3, b \in Loc3 :
            (k # j /\ EdgeSet(k, a) = EdgeSet(j, b)) =>
                /\ Mid(k, a).num = Mid(j, b).num
                /\ Mid(k, a).x = Mid(j, b).x
                /\ Mid(k, a).y = Mid(j, b).y
                /\ \A s1 \in EdgeSet(k, a), s2 \in EdgeSet(k, a) :
                       s1 # s2 => IsMeanOf(Mid(k, a), At(v, s1), At(v, s2))

C1_Witness ==
    /\ pc = "mil"
    /\ \E k \in Tris, j \in Tris, a \in Loc3, b \in Loc3 :
           /\ k # j
           /\ EdgeSet(k, a) = EdgeSet(j, b)
           /\ Corner(k, (a + 1) % 3).num = Corner(j, (b + 2) % 3).num
           /\ Mid(k, a).num = Mid(j, b).num

\* C2: after PointsMil adjacency is symmetric: j is in voisins[k] if and only
\* if k is in voisins[j]
C2_AdjacencySymmetric ==
    AfterPointsMil =>
        \A k \in Tris, j \in Tris :
            InList(j, At(voisins, k)) <=> InList(k, At(voisins, j))

C2_Witness ==
    /\ pc = "mil"
    /\ nbt >= 2
    /\ \E k \in Tris, j \in Tris :
          k # j /\ InList(j, At(voisins, k)) /\ InList(k, At(voisins, j))

\* the unit square (0,0),(1,0),(1,1),(0,1) split along a diagonal
IsUnitSquareSplit ==
    /\ nv = 4 /\ nbt = 2 /\ nbe = 4
    /\ LET cs(k) == {Corner(k, a).num : a \in Loc3}
       IN  \/ {cs(0), cs(1)} = {{0, 1, 2}, {0, 2, 3}}
           \/ {cs(0), cs(1)} = {{0, 1, 3}, {1, 2, 3}}

\* C3: PointsMil returns nv plus the number of distinct undirected edges of
\* the triangles; for the unit square split along a diagonal it returns 9 and
\* the two triangles are each other's only neighbour
C3_ReturnCount ==
    AfterPointsMil =>
        /\ n = nv + Cardinality(AllEdgeSets)
        /\ IsUnitSquareSplit =>
               n = 9 /\ voisins = << <<1>>, <<0>> >>

C3_Witness == pc = "mil" /\ IsUnitSquareSplit /\ n = 9

\* C4: after PointsMil every triangle has its three midpoints set, and
\* mil[a] is the midpoint of the edge joining corners (a+1)%3 and (a+2)%3
C4_MidpointOpposite ==
    AfterPointsMil =>
        \A k \in Tris, a \in Loc3 :
            /\ Mid(k, a).num # NoNum
            /\ IsMeanOf(Mid(k, a), Corner(k, (a + 1) % 3),
                        Corner(k, (a + 2) % 3))

C4_Witness ==
    /\ pc = "mil"
    /\ \E k \in Tris :
          /\ Mid(k, 0).num >= nv
          /\ IsMeanOf(Mid(k, 0), Corner(k, 1), Corner(k, 2))
          /\ ~IsMeanOf(Mid(k, 0), Corner(k, 0), Corner(k, 1))

\* scan position s = 3k + a of the double loop, and the first position at
\* which the edge met at position s was met
ScanPos == 0..(3 * nbt - 1)

ScanEdge(s) == EdgeSet(s \div 3, s % 3)

FirstMet(s) ==
    CHOOSE f \in ScanPos :
        /\ ScanEdge(f) = ScanEdge(s)
        /\ \A h \in ScanPos : ScanEdge(h) = ScanEdge(s) => f <= h

\* number of distinct edges met before position s
RankBefore(s) == Cardinality({ScanEdge(h) : h \in 0..(s - 1)})

\* C5: in scan order the m-th distinct corner pair gets midpoint index nv+m
\* and its midpoint is appended to the vertex list at position nv+m; a later
\* triangle with the same pair reuses the index and creates nothing, so
\* distinct edges have distinct indices and the indices fill nv..n-1
C5_SequentialNumbering ==
    AfterPointsMil =>
        /\ Len(v) = n
        /\ \A s \in ScanPos :
              LET m   == RankBefore(FirstMet(s))
                  mid == Mid(s \div 3, s % 3)
              IN  /\ mid.num = nv + m
                  /\ At(v, nv + m).num = nv + m
                  /\ At(v, nv + m).x = mid.x
                  /\ At(v, nv + m).y = mid.y
        /\ \A r \in ScanPos, s \in ScanPos :
              ScanEdge(r) # ScanEdge(s) =>
                  Mid(r \div 3, r % 3).num # Mid(s \div 3, s % 3).num
        /\ {Mid(s \div 3, s % 3).num : s \in ScanPos} = nv..(n - 1)

C5_Witness ==
    /\ pc = "mil"
    /\ \E s \in ScanPos : FirstMet(s) < s /\ Mid(s \div 3, s % 3).num < n - 1
    /\ n > nv + 3

---------------------------------------------------------------------------
(* Point location: what the claims speak about *)

Called == pc = "located"

\* P is in the closed triangle k: it is a convex combination of the corners
\* (for corners on the integer grid the weights are multiples of 1/|det|)
InHull(k, P) ==
    LET D == Abs(det(Corner(k, 0), Corner(k, 1), Corner(k, 2)))
    IN  /\ D > 0
        /\ \E l0 \in 0..D, l1 \in 0..D :
              /\ l0 + l1 <= D
              /\ D * P[1] = l0 * Corner(k, 0).x + l1 * Corner(k, 1).x
                            + (D - l0 - l1) * Corner(k, 2).x
              /\ D * P[2] = l0 * Corner(k, 0).y + l1 * Corner(k, 1).y
                            + (D - l0 - l1) * Corner(k, 2).y

CounterClockwise(k) == det(Corner(k, 0), Corner(k, 1), Corner(k, 2)) > 0

\* the inside test of point location on triangle k of the mesh
Passes(k, P) == Inside(At(t, k), P)

\* the reference coordinates c are those of P in triangle k:
\* P = v0 + (xn/d)(v1 - v0) + (yn/d)(v2 - v0)
IsRefCoordsOf(c, k, P) ==
    /\ ~c.nan
    /\ c.d # 0
    /\ c.d * P[1] = c.d * Corner(k, 0).x
                    + c.xn * (Corner(k, 1).x - Corner(k, 0).x)
                    + c.yn * (Corner(k, 2).x - Corner(k, 0).x)
    /\ c.d * P[2] = c.d * Corner(k, 0).y
                    + c.xn * (Corner(k, 1).y - Corner(k, 0).y)
                    + c.yn * (Corner(k, 2).y - Corner(k, 0).y)

StartIsReference ==
    /\ Corner(loc.triangle, 0).x = 0 /\ Corner(loc.triangle, 0).y = 0
    /\ Corner(loc.triangle, 1).x = 4 /\ Corner(loc.triangle, 1).y = 0
    /\ Corner(loc.triangle, 2).x = 0 /\ Corner(loc.triangle, 2).y = 4

AllNonNegative(a) == a[1] >= 0 /\ a[2] >= 0 /\ a[3] >= 0

ReferenceExamples ==
    StartIsReference =>
        /\ loc.PtInterp = <<1, 1>> => AllNonNegative(loc.areas)
        /\ loc.PtInterp = <<8, 8>> => ~AllNonNegative(loc.areas)

\* C7 as stated: for every triangle the test "the minimum of the three signed
\* sub-areas is >= 0" holds exactly when the point is inside or on the
\* boundary of the triangle
C7_AsStated ==
    Called =>
        /\ (min(loc.areas[1], loc.areas[2], loc.areas[3]) >= 0
               <=> InHull(loc.triangle, loc.PtInterp))
        /\ ReferenceExamples

\* C7 amended: for a triangle whose corners are in counter-clockwise order
\* the test holds exactly when the point is inside or on the boundary; the
\* reference triangle gives three sub-areas >= 0 at (0.25,0.25) and a
\* negative one at (2,2)
C7_InsideTestCCW ==
    Called =>
        /\ CounterClockwise(loc.triangle) =>
              (min(loc.areas[1], loc.areas[2], loc.areas[3]) >= 0
                  <=> InHull(loc.triangle, loc.PtInterp))
        /\ ReferenceExamples

C7_Witness ==
    /\ Called
    /\ StartIsReference
    /\ loc.PtInterp = <<1, 1>>
    /\ loc.vois = loc.triangle
    /\ InHull(loc.triangle, loc.PtInterp)

---------------------------------------------------------------------------
(* Global system: what the claims speak about *)

\* a call of resolution_Stokes has handed a system to the solver
Solved == pc \in {"stokes", "ns", "done"}

\* the map and the alpha of the last call
SolvedMap == IF call.NS = 0 THEN M1 ELSE M2

CallAlpha == IF call.NS = 0 THEN 0 ELSE AlphaNS

\* the system of the last call as the assembly alone leaves it
AssembledMap == Assemble(<<>>, t, n, CallAlpha)

AssembledRhs ==
    LET b0 == [i \in 1..(2 * n + nv) |-> Zero]
    IN  IF call.NS = 1 THEN CaractLoop(b0, t, n, call.xprec) ELSE b0

\* c times the penalty tgv
TgvTimes(c) == [tgv |-> c, terms |-> <<>>]

\* the inflow profile (1-y)(y-0.5)*16 at height y (in units of 1/4)
InflowProfile(y) == (4 - y) * (y - 2)

BoundaryValue(node, lab) == IF lab = 10 THEN InflowProfile(node.y) ELSE 0

\* C8 (as stated): when the system is solved, every local node (k,il), il in
\* 0..5, with label 10, 20 or 40 has the diagonal entries (i,i) and (i+n,i+n)
\* equal to tgv, b[i] = g(node,label)*tgv and b[i+n] = 0, where i = Th(k,il);
\* every local node with label 0 or 30 has the assembled diagonal entries and
\* the assembled right-hand side entries.
C8_AsStated ==
    Solved =>
      \A k \in Tris, il \in 0..5 :
        LET node == LocalNode(t, k, il)
            i    == Th(t, k, il)
        IN  /\ node.lab \in {10, 20, 40} =>
                 /\ SolvedMap[<<i, i>>] = TgvTimes(1)
                 /\ SolvedMap[<<i + n, i + n>>] = TgvTimes(1)
                 /\ At(rhs, i) = TgvTimes(BoundaryValue(node, node.lab))
                 /\ At(rhs, i + n) = Zero
            /\ node.lab \in {0, 30} =>
                 /\ SolvedMap[<<i, i>>] = AssembledMap[<<i, i>>]
                 /\ SolvedMap[<<i + n, i + n>>] = AssembledMap[<<i + n, i + n>>]
                 /\ At(rhs, i) = At(AssembledRhs, i)
                 /\ At(rhs, i + n) = At(AssembledRhs, i + n)

\* C9: applying the boundary-condition loop of resolution_Stokes once more
\* to the map and the right-hand side that a call has stamped, without
\* assembling again, changes no entry of the map and no entry of the
\* right-hand side.
C9_StampingIdempotent ==
    Solved =>
      Stamping([M |-> SolvedMap, b |-> rhs], t, n, 0, 0)
        = [M |-> SolvedMap, b |-> rhs]

\* a solved system with a stamped diagonal, a nonzero prescribed value and
\* an entry that the stamping leaves alone
C9_Witness ==
    /\ Solved
    /\ call.NS = 1
    /\ \E key \in DOMAIN SolvedMap : SolvedMap[key].tgv = 1
    /\ \E key \in DOMAIN SolvedMap : SolvedMap[key].terms # <<>>
    /\ \E i \in 1..Len(rhs) : rhs[i].tgv # 0
    /\ \E i \in 1..Len(rhs) : rhs[i].terms # <<>>

\* C10: M2 is empty until the first unsteady call, which assembles and stamps
\* it; every later step of main (the calls with MapExiste = 1 included)
\* leaves the key set and the values of M2 unchanged, and leaves M1 and the
\* mesh unchanged: only the right-hand side and the fields change.
C10_MatrixReused ==
    [][/\ pc \in {"loaded", "mil"} => M2 = <<>>
       /\ pc = "stokes" /\ pc' = "ns" => DOMAIN M2' # {}
       /\ pc = "ns" =>
            /\ DOMAIN M2' = DOMAIN M2
            /\ M2' = M2
            /\ M1' = M1
            /\ meshVars' = meshVars]_vars

\* a call with MapExiste = 1 has returned, on a map with stamped and with
\* assembled entries, and with a right-hand side that differs from the one
\* of the call before
C10_Witness ==
    /\ pc = "ns"
    /\ step >= 3
    /\ call.MapExiste = 1
    /\ \E key \in DOMAIN M2 : M2[key].tgv = 1
    /\ \E key \in DOMAIN M2 : M2[key].terms # <<>>
    /\ \E i \in 1..Len(rhs) :
          \E c \in 1..Len(rhs[i].terms) : rhs[i].terms[c].xprec = X - 1

\* C11: for every triangle k and local index il in 0..14 the global index is
\* Th(k,il) in [0,n) for il < 6, Th(k,il-6)+n in [n,2n) for 6 <= il < 12 and
\* Th(k,il-12)+2n in [2n,2n+nv) for il >= 12; hence the three blocks never
\* overlap, no index reaches 2n+nv, every key of the assembled maps has both
\* components in [0,2n+nv) and the right-hand side has 2n+nv entries.
C11_DofBlocks ==
    AfterPointsMil =>
      /\ \A k \in Tris, il \in 0..14 :
            LET i == DofIndex(t, n, k, il)
            IN  /\ il < 6 => i = Th(t, k, il) /\ 0 <= i /\ i < n
                /\ il >= 6 /\ il < 12 =>
                      i = Th(t, k, il - 6) + n /\ n <= i /\ i < 2 * n
                /\ il >= 12 =>
                      /\ i = Th(t, k, il - 12) + 2 * n
                      /\ 2 * n <= i
                      /\ i < 2 * n + nv
      /\ \A key \in (DOMAIN M1) \cup (DOMAIN M2) :
            /\ key[1] \in 0..(2 * n + nv - 1)
            /\ key[2] \in 0..(2 * n + nv - 1)
      /\ Solved => Len(rhs) = 2 * n + nv

\* a system assembled on a mesh of several triangles, with entries in each
\* of the three blocks of rows
C11_Witness ==
    /\ Solved
    /\ nbt >= 2
    /\ \E key \in DOMAIN M1 : key[1] < n /\ key[2] >= 2 * n
    /\ \E key \in DOMAIN M1 : key[1] >= n /\ key[1] < 2 * n
    /\ \E key \in DOMAIN M1 : key[1] = 2 * n + nv - 1

---------------------------------------------------------------------------
(* Boundary labels and exit triangles *)

\* the boundary edges (0-based positions in e) whose endpoints include the
\* vertex numbers of S
BoundaryEdgesOf(S) ==
    { k \in 0..(nbe - 1) : S \subseteq {At(e, k).v[1].num, At(e, k).v[2].num} }

\* the label of the last boundary edge of the file that contains S, 0 if
\* there is none
LastLabel(S) ==
    IF BoundaryEdgesOf(S) = {} THEN 0
    ELSE LET k == CHOOSE k \in BoundaryEdgesOf(S) :
                     \A j \in BoundaryEdgesOf(S) : j <= k
         IN  At(e, k).lab

\* C12 (as stated): after PointsMil every vertex of the mesh vertex list
\* that lies on a boundary edge carries the label of the last boundary edge
\* of the file that contains it, the midpoint of a boundary edge carries the
\* label of that edge, and the vertices and midpoints on no boundary edge
\* keep the label 0.
C12_AsStated ==
    AfterPointsMil =>
      /\ \A s \in 0..(nv - 1) : At(v, s).lab = LastLabel({s})
      /\ \A k \in Tris, a \in Loc3 :
            At(v, Mid(k, a).num).lab = LastLabel(EdgeSet(k, a))

\* triangle k has an edge that is a boundary edge of label 30
HasExitEdge(k) ==
    \E a \in Loc3 :
        /\ BoundaryEdgesOf(EdgeSet(k, a)) # {}
        /\ LastLabel(EdgeSet(k, a)) = 30

\* C13 (as stated): after PointsMil the exit list triangleSortie contains
\* the triangle k if and only if some edge of k is a boundary edge with
\* label 30.
C13_AsStated ==
    AfterPointsMil =>
      \A k \in Tris : InList(k, triangleSortie) <=> HasExitEdge(k)

---------------------------------------------------------------------------
(* Characteristics: what the claims speak about *)

\* the three signed sub-areas of P in triangle k are all >= 0
SubAreasOK(k, P) ==
    /\ det(R2(P), Corner(k, 1), Corner(k, 2)) >= 0
    /\ det(Corner(k, 0), R2(P), Corner(k, 2)) >= 0
    /\ det(Corner(k, 0), Corner(k, 1), R2(P)) >= 0

\* C14: find_triangle examines only triangles of the exit list, in list
\* order: the triangles examined are a prefix of triangleSortie; it returns
\* the first one whose three signed sub-areas for the point are >= 0, and
\* -1 when no listed triangle passes, whatever the other triangles of the
\* mesh contain.
C14_ExitListSearch ==
    trace.searched =>
      LET ex == trace.examined
          Q  == trace.PointCaract
      IN  /\ Len(ex) <= Len(triangleSortie)
          /\ \A i \in 1..Len(ex) : ex[i] = triangleSortie[i]
          /\ \A i \in 1..(Len(ex) - 1) : ~SubAreasOK(ex[i], Q)
          /\ trace.vois >= 0 =>
                /\ ex # <<>>
                /\ trace.vois = ex[Len(ex)]
                /\ SubAreasOK(trace.vois, Q)
          /\ trace.vois < 0 =>
                /\ trace.vois = -1
                /\ ex = triangleSortie
                /\ \A i \in 1..Len(ex) : ~SubAreasOK(ex[i], Q)

\* a search that fails on a non-empty exit list although a triangle that is
\* not listed contains the point
C14_Witness ==
    /\ trace.searched
    /\ triangleSortie # <<>>
    /\ trace.vois = -1
    /\ \E k \in Tris :
          SubAreasOK(k, trace.PointCaract) /\ ~InList(k, triangleSortie)

\* a quadrature point was traced back and RecupVoisins did not locate its foot
LocationFailed == trace.asserted /\ trace.vois0 < 0

\* C15: when the location fails and the foot has x < 0, its height is
\* brought into [0.5, 1] (below 0.5 to 0.5, above 1 to 1, otherwise kept),
\* u1 is the inflow profile at that height, u2 is 0, no triangle is searched
\* and the run goes on; a foot below 0.5 (such as 0.25) gets u1 = 0.
C15_InflowFallback ==
    LocationFailed /\ trace.P[1] < 0 =>
      LET y  == trace.P[2]
          yc == IF y < 2 THEN 2 ELSE IF y > 4 THEN 4 ELSE y
      IN  /\ trace.PointCaract = <<0, yc>>
          /\ 2 <= yc /\ yc <= 4
          /\ trace.u1 = Value(InflowProfile(yc))
          /\ trace.u2 = Value(0)
          /\ y < 2 => trace.u1.val = 0
          /\ ~trace.searched
          /\ trace.boolRecup = 0
          /\ pc = "traced"

\* a foot left of the domain at height 0.25, brought to height 0.5
C15_Witness ==
    /\ LocationFailed
    /\ trace.P = <<-1, 1>>
    /\ trace.PointCaract = <<0, 2>>
    /\ trace.u1 = Value(0)
    /\ pc = "traced"

\* C16 (as stated): when the location fails and the foot has x > 10, x is
\* set to 10; if the height is outside [0, 1] both velocities are 0 and
\* nothing is searched; otherwise the exit list is searched for the clamped
\* point and, when a triangle is found, both velocities are the previous
\* field interpolated in that triangle at the reference coordinates of the
\* clamped point in that triangle.
C16_AsStated ==
    LocationFailed /\ trace.P[1] > RightEdge =>
      LET y == trace.P[2]
      IN  /\ trace.PointCaract = <<RightEdge, y>>
          /\ y < 0 \/ y > ChannelTop =>
                /\ trace.u1 = Value(0)
                /\ trace.u2 = Value(0)
                /\ ~trace.searched
          /\ 0 <= y /\ y <= ChannelTop =>
                /\ trace.searched
                /\ trace.vois >= 0 =>
                      /\ trace.u1.interp /\ trace.u1.tri = trace.vois
                      /\ trace.u2.interp /\ trace.u2.tri = trace.vois
                      /\ IsRefCoordsOf(trace.u1.at, trace.vois,
                                       trace.PointCaract)
                      /\ IsRefCoordsOf(trace.u2.at, trace.vois,
                                       trace.PointCaract)

\* C17: when the location fails and the foot has 0 <= x <= 10, both
\* velocities are 0, the foot is left as it is, nothing is searched and the
\* run goes on.  The cases are tested in the order x < 0, x <= 10, x > 10
\* and exactly one is applied: only a foot with x < 0 is moved to x = 0 and
\* only a foot with x > 10 is moved to x = 10 (x = 0 and x = 10 belong to
\* the middle case).
C17_InteriorFallback ==
    LocationFailed =>
      LET x == trace.P[1]
      IN  /\ 0 <= x /\ x <= RightEdge =>
                /\ trace.u1 = Value(0)
                /\ trace.u2 = Value(0)
                /\ trace.PointCaract = trace.P
                /\ ~trace.searched
                /\ trace.boolRecup = 0
                /\ pc = "traced"
          /\ x < 0 => trace.PointCaract[1] = 0 /\ ~trace.searched
          /\ x > RightEdge => trace.PointCaract[1] = RightEdge

\* a foot on the line x = 10, at mid-height, that is in no triangle of the
\* mesh
C17_Witness ==
    /\ LocationFailed
    /\ trace.P = <<RightEdge, 2>>
    /\ trace.u1 = Value(0)
    /\ trace.u2 = Value(0)
    /\ pc = "traced"

\* the foot of the traced point is beyond the right edge, strictly inside
\* the channel in height, and the clamped point is in no triangle of the
\* exit list
ExitLost ==
    /\ LocationFailed
    /\ trace.P[1] > RightEdge
    /\ 0 < trace.P[2] /\ trace.P[2] < ChannelTop
    /\ \A i \in 1..Len(triangleSortie) :
          ~SubAreasOK(triangleSortie[i], <<RightEdge, trace.P[2]>>)

\* the run was ended inside the first unsteady call: the system handed to
\* the solver is still the one of the Stokes call, one solve was made, the
\* loop on t has not started and no step of main follows
EndedInTracing ==
    /\ pc = "aborted"
    /\ call.NS = 0
    /\ X = 1
    /\ xprec = 1
    /\ step = 0
    /\ ~ENABLED NextTrace

\* an assertion at the head of the pass on (k, ps) fails: the neighbour list
\* of k is empty or an interpolated velocity component is not below 3
\* (alpha = 1/dt is positive in main)
HeadAssertFails ==
    /\ trace.k >= 0
    /\ ~trace.asserted
    /\ At(voisins, trace.k) = <<>> \/ ~trace.below3

\* a pass on (k, ps) has been made
Traced == pc \in {"traced", "aborted"}

\* C18 (as stated): if the foot is beyond the right edge with its height
\* strictly between 0 and 1 and is in no exit triangle, the run is ended (no
\* right-hand side, no solve, no later step); this is the only way the
\* tracing ends the run; whenever the run goes on and the velocity is
\* interpolated, the triangle used is a valid index 0..nbt-1.
C18_AsStated ==
    Traced =>
      /\ ExitLost => EndedInTracing
      /\ pc = "aborted" => ExitLost
      /\ pc = "traced" /\ trace.boolRecup = 1 => trace.vois \in Tris

\* C18 (amended): if the foot is beyond the right edge with its height
\* strictly between 0 and 1 and is in no exit triangle, the run is ended (no
\* right-hand side, no solve, no later step); the tracing ends the run in
\* this case and when an assertion at the head of the pass fails (empty
\* neighbour list of the triangle, interpolated velocity not below 3), and
\* in no other case; whenever the run goes on and the velocity is
\* interpolated, the triangle used is a valid index 0..nbt-1.
C18_FatalOutcomes ==
    Traced =>
      /\ ExitLost => EndedInTracing
      /\ HeadAssertFails => EndedInTracing
      /\ pc = "aborted" => ExitLost \/ HeadAssertFails
      /\ pc = "traced" /\ trace.boolRecup = 1 => trace.vois \in Tris

\* the run ended by a failed exit search although the exit list is not
\* empty and a triangle of the mesh contains the clamped point
C18_Witness ==
    /\ ExitLost
    /\ EndedInTracing
    /\ triangleSortie # <<>>
    /\ \E k \in Tris : SubAreasOK(k, <<RightEdge, trace.P[2]>>)

---------------------------------------------------------------------------
(* The run of main: what the claims speak about *)

\* C19 (as stated): a nonzero status of the solver is a fatal failure:
\* resolution_Stokes returns no solution for it (X is still the field the
\* call was given) and main does not go on.
C19_AsStated ==
    call.status # 0 => pc = "aborted" /\ X = call.xprec

\* how far main has come: the calls made so far
Progress ==
    CASE pc = "loaded" -> 0
      [] pc = "mil" -> 1
      [] pc = "stokes" -> 2
      [] pc = "ns" -> 2 + step
      [] OTHER -> 3 + NbSteps

\* C20: provided no assertion fails, main makes one Stokes solve, then 80
\* Navier-Stokes solves (the first assembles, the 79 of the loop reuse the
\* map) and returns 0: the k-th solve of the run is made with t = k - 1, the
\* run returns only with t = 80 and 81 solves made, no step of the loop is
\* left out, and the run ends: every step of main brings it nearer to the
\* end, and with t = 80 main returns.
C20_FixedStepCount ==
    /\ [](/\ pc = "mil" => X = 0 /\ step = 0
          /\ pc = "stokes" => X = 1 /\ step = 0
          /\ pc = "ns" => X = step + 1 /\ step >= 1 /\ step <= NbSteps
          /\ pc = "done" => X = NbSteps + 1 /\ step = NbSteps
          /\ pc = "ns" /\ step = NbSteps => ENABLED Return)
    /\ [][/\ pc' = "done" => pc = "ns" /\ step = NbSteps
          /\ pc = "ns" /\ pc' = "ns" =>
                /\ step' = step + 1
                /\ X' = X + 1
                /\ call'.MapExiste = 1
          /\ Progress' > Progress
          /\ Progress' <= 3 + NbSteps]_vars

\* main has returned 0 after 81 solves, the last one with t = 79
C20_Witness ==
    /\ pc = "done"
    /\ X = NbSteps + 1
    /\ step = NbSteps
    /\ call.NS = 1
    /\ call.MapExiste = 1
    /\ call.xprec = NbSteps

---------------------------------------------------------------------------
(* Shape functions: what the claims speak about *)

\* the shape functions have been taken at a point
Evaluated == pc = "evaluated"

\* C21: at every point P of the reference plane, inside or outside the
\* reference triangle, the six shape functions Phi(0..5, P) sum to 1 (d^2
\* in the scaled values).
C21_PartitionOfUnity ==
    Evaluated =>
      At(basis.phi, 0) + At(basis.phi, 1) + At(basis.phi, 2)
        + At(basis.phi, 3) + At(basis.phi, 4) + At(basis.phi, 5)
        = basis.d * basis.d

\* a point outside the reference triangle at which no shape function
\* vanishes and one is negative
C21_Witness ==
    /\ Evaluated
    /\ basis.P[1] < 0
    /\ basis.P[2] > basis.d
    /\ \A i \in 0..5 : At(basis.phi, i) # 0
    /\ \E i \in 0..5 : At(basis.phi, i) < 0

\* the six nodes of the reference triangle over the denominator d: the
\* corners (0,0), (1,0), (0,1) and the midpoints opposite to corner 0, 1, 2
RefNode(j, d) ==
    CASE j = 0 -> <<0, 0>>
      [] j = 1 -> <<d, 0>>
      [] j = 2 -> <<0, d>>
      [] j = 3 -> <<d \div 2, d \div 2>>
      [] j = 4 -> <<0, d \div 2>>
      [] OTHER -> <<d \div 2, 0>>

\* C22: Phi(i, node_j) is 1 when i = j and 0 otherwise, for all i, j in
\* 0..5; and for i in 3..5 the two lambda indices used by PartialPhi are,
\* as a set, the two used by Phi, namely {0,1,2} minus {i-3}.
C22_NodalBasis ==
    /\ Evaluated =>
          \A j \in 0..5 :
              basis.P = RefNode(j, basis.d) =>
                  \A i \in 0..5 :
                      At(basis.phi, i)
                        = IF i = j THEN basis.d * basis.d ELSE 0
    /\ \A i \in 3..5 :
          /\ {PartialPhiPair(i)[1], PartialPhiPair(i)[2]}
               = {PhiPair(i)[1], PhiPair(i)[2]}
          /\ {PhiPair(i)[1], PhiPair(i)[2]} = {0, 1, 2} \ {i - 3}

\* the shape functions taken at the midpoint opposite to corner 1
C22_Witness ==
    /\ Evaluated
    /\ basis.d = 4
    /\ basis.P = <<0, 2>>
    /\ At(basis.phi, 4) = 16

\* the local nodes (k, il) with a Dirichlet label whose global index is i
DirichletCopies(i) ==
    { c \in Tris \X (0..5) :
        /\ Th(t, c[1], c[2]) = i
        /\ IsDirichlet(LocalNode(t, c[1], c[2]).lab) }

\* C23: after every unsteady call, the right-hand side handed to the solver
\* holds at each Dirichlet dof exactly a stamped value (the prescribed value
\* of one of its Dirichlet copies times tgv, and 0 for the second
\* component) with no characteristic term, and at every other velocity dof
\* the characteristic terms of the previous field; the previous field of
\* the first unsteady call is the Stokes solution and the previous field of
\* every later call is the solution of the call before.
C23_StepOrder ==
    Solved /\ call.NS = 1 =>
      /\ \A i \in 0..(n - 1) :
            IF DirichletCopies(i) # {}
            THEN /\ At(rhs, i).terms = <<>>
                 /\ \E c \in DirichletCopies(i) :
                       At(rhs, i)
                         = TgvTimes(BoundaryValue(
                                      LocalNode(t, c[1], c[2]),
                                      LocalNode(t, c[1], c[2]).lab))
                 /\ At(rhs, i + n) = Zero
            ELSE /\ At(rhs, i) = At(AssembledRhs, i)
                 /\ At(rhs, i + n) = At(AssembledRhs, i + n)
      /\ call.xprec = X - 1
      /\ call.xprec >= 1
      /\ call.MapExiste = 0 => call.xprec = 1
      /\ xprec = X

\* after the third unsteady call: a wall dof and an inflow dof with stamped
\* values, a free dof with the characteristic terms of the second solution
C23_Witness ==
    /\ Solved
    /\ call.NS = 1
    /\ step = 3
    /\ call.xprec = 3
    /\ \E i \in 0..(n - 1) :
          DirichletCopies(i) # {} /\ At(rhs, i) = Zero
    /\ \E i \in 0..(n - 1) :
          DirichletCopies(i) # {} /\ At(rhs, i).tgv # 0
    /\ \E i \in 0..(n - 1) :
          /\ DirichletCopies(i) = {}
          /\ At(rhs, i).terms # <<>>
          /\ \A j \in 1..Len(At(rhs, i).terms) :
                At(rhs, i).terms[j].xprec = 3

---------------------------------------------------------------------------
(* Adjacency: what the claims speak about *)

\* the triangles listed in voisins[k]
Listed(k) == { At(voisins, k)[i] : i \in 1..Len(At(voisins, k)) }

\* the corner numbers of triangle k
CornerSet(k) == { Corner(k, a).num : a \in Loc3 }

SharesEdge(j, k) == \E a \in Loc3, c \in Loc3 : EdgeSet(j, a) = EdgeSet(k, c)

SharesVertex(j, k) == CornerSet(j) \cap CornerSet(k) # {}

\* C24 (as stated): after PointsMil, voisins[k] is exactly the set of the
\* triangles j # k that share an undirected edge with k: every such triangle
\* is listed, and no triangle that shares only a vertex, or nothing, with k.
C24_AsStated ==
    AfterPointsMil =>
      \A k \in Tris :
          Listed(k) = { j \in Tris \ {k} : SharesEdge(j, k) }

\* the list is sorted ascending without duplicate
StrictlyAscending(list) ==
    \A i \in 1..(Len(list) - 1) : list[i] < list[i + 1]

\* C25 (as stated): for every mesh, the adjacency built from the incident
\* triangles of the vertices (third unit) and the adjacency built from the
\* map of the edges to their first triangle (mesh.cpp, mesh_gmsh.cpp) are
\* the same table, and in each of them every list voisins[k] is sorted
\* ascending, has no duplicate and does not contain k.
C25_AsStated ==
    [][pc = "loaded" /\ pc' = "mil" =>
         /\ voisins' = PointsMil("tri", v, t, e, voisins, nv).voisins
         /\ voisins' = PointsMil("mesh", v, t, e, voisins, nv).voisins
         /\ voisins' = PointsMil("gmsh", v, t, e, voisins, nv).voisins
         /\ \A k \in 1..Len(voisins') :
               /\ StrictlyAscending(voisins'[k])
               /\ ~InList(k - 1, voisins'[k])]_vars

---------------------------------------------------------------------------
(* Compression claims *)

\* a call of resolution_Stokes that assembled its map and compressed it
Compressed == pc \in {"stokes", "ns"} /\ call.MapExiste = 0

taille == 2 * n + nv

\* the entries of AI between Ap[c] and Ap[c+1]
Range(csc, c) ==
    IF At(csc.Ap, c) <= At(csc.Ap, c + 1)
       /\ At(csc.Ap, c) >= 0 /\ At(csc.Ap, c + 1) <= Len(csc.AI)
    THEN [p \in 1..(At(csc.Ap, c + 1) - At(csc.Ap, c)) |->
            At(csc.AI, At(csc.Ap, c) + p - 1)]
    ELSE <<-1>>

\* the arrays list, for each index c of the compressed axis in ascending
\* order, the stored entries of c with the other index strictly ascending,
\* Ap[c] and Ap[c+1] delimit them, and Ax holds their values
CompressedForm(csc, M, axis) ==
    /\ Len(csc.AI) = Cardinality(DOMAIN M)
    /\ Len(csc.Ax) = Cardinality(DOMAIN M)
    /\ \A c \in 0..(taille - 1) :
          LET r == Range(csc, c)
          IN  /\ StrictlyAscending(r)
              /\ { r[p] : p \in 1..Len(r) }
                    = { q[3 - axis] : q \in { k \in DOMAIN M : k[axis] = c } }
              /\ \A p \in 1..Len(r) :
                    At(csc.Ax, At(csc.Ap, c) + p - 1)
                       = M[IF axis = 1 THEN <<c, r[p]>> ELSE <<r[p], c>>]

\* C26 (as stated): the solver arrays list the stored entries column by
\* column with strictly ascending row indices, the pointer array delimits
\* each column, and the order is a function of the key set alone.  The pass
\* of resolution_Stokes compresses along the first key component and solves
\* the transposed system; the key set is symmetric, so this is the
\* column-major listing of the map too.  The older column-by-column pass of
\* MatNS.hpp is held to the same statement.
C26_AsStated ==
    Compressed =>
      /\ \A q \in DOMAIN SolvedMap : <<q[2], q[1]>> \in DOMAIN SolvedMap
      /\ CompressedForm(CompressByColumn(SolvedMap, taille), SolvedMap, 2)
      /\ \A junk \in JunkChoices(taille) :
            LET csc  == Compress(SolvedMap, taille, junk)
                keys == Compress([q \in DOMAIN SolvedMap |-> Zero],
                                 taille, junk)
            IN  /\ CompressedForm(csc, SolvedMap, 1)
                /\ keys.AI = csc.AI
                /\ keys.Ap = csc.Ap

\* C30 (as stated): every pointer entry Ap[1..taille] is written by the
\* loop, Ap[0] = 0, Ap[taille] = |M|, Ap is non-decreasing, Ap[i+1] is the
\* number of entries with first key component <= i, and every row of the
\* assembled map has a stored entry
C30_AsStated ==
    Compressed =>
      \A junk \in JunkChoices(taille) :
         LET csc == Compress(SolvedMap, taille, junk)
         IN  /\ csc.written = 0..taille
             /\ At(csc.Ap, 0) = 0
             /\ At(csc.Ap, taille) = Cardinality(DOMAIN SolvedMap)
             /\ \A i \in 0..(taille - 1) :
                   /\ At(csc.Ap, i) <= At(csc.Ap, i + 1)
                   /\ At(csc.Ap, i + 1)
                        = Cardinality({ q \in DOMAIN SolvedMap : q[1] <= i })
                   /\ \E q \in DOMAIN SolvedMap : q[1] = i

---------------------------------------------------------------------------
(* The previous-step solution *)

\* the fields read by the characteristic terms of the right-hand side
FieldsRead ==
    UNION { { rhs[j].terms[p].xprec : p \in 1..Len(rhs[j].terms) } :
            j \in 1..Len(rhs) }

\* C27: resolution_Stokes, CalculCaracteristique and recup receive the
\* previous-step solution by value and never write it: every characteristic
\* term of a step was read from the field xprec had when the step began,
\* xprec changes only when a call has returned, to the solution returned as
\* a whole, and a call that aborts leaves it as it was
C27_PreviousFieldReadOnly ==
    /\ [](Solved /\ call.NS = 1 => FieldsRead \subseteq {call.xprec})
    /\ [][/\ xprec' # xprec =>
                /\ pc' \in {"stokes", "ns"}
                /\ call'.xprec = xprec
                /\ xprec' = X'
                /\ X' # X
          /\ pc' = "aborted" => xprec' = xprec
          /\ pc' = "done" => xprec' = xprec]_vars

\* after the second unsteady call on a mesh of several triangles: a dof
\* receives terms of two triangles, all read from the second solution, and
\* xprec is now the third solution
C27_Witness ==
    /\ pc = "ns"
    /\ step = 2
    /\ call.xprec = 2
    /\ xprec = 3
    /\ \E j \in 1..Len(rhs) :
          \E p, q \in 1..Len(rhs[j].terms) :
             /\ rhs[j].terms[p].k # rhs[j].terms[q].k
             /\ rhs[j].terms[p].xprec = 2
             /\ rhs[j].terms[q].xprec = 2

---------------------------------------------------------------------------
(* Work arrays: bounds of the indices *)

InBounds(a) == 0 <= a.index /\ a.index < Allocated[a.array]

\* C28 (as stated): in every pass of the loop on ps, for every triangle,
\* each element read or written lies inside its array; the arrays indexed
\* by ps have at least 7 elements and those filled by recup at least 6
C28_AsStated ==
    trace.ps >= 0 =>
      /\ \A a \in BeforePasses \cup PassAccesses(trace) \cup TestLoopAccesses :
            InBounds(a)
      /\ \A a \in {"u1pInterp", "u2pInterp", "u1pInterp2", "u2pInterp2",
                   "PointCaractX", "PointCaractY", "Point", "phi"} :
            Allocated[a] >= NbQuad
      /\ \A a \in {"u1pk", "u2pk", "u1pInterp", "u2pInterp"} :
            Allocated[a] >= NbLocal

---------------------------------------------------------------------------
(* Labels of the triangle-local copies *)

\* C29 (as stated): after PointsMil every corner copy t[k].v[a] and every
\* midpoint copy t[k].mil[a] carries the label of the entry of the vertex
\* list with the same global index, so the copies of a node in two
\* triangles carry the same label
C29_AsStated ==
    AfterPointsMil =>
      /\ \A k \in Tris, il \in 0..5 :
            LocalNode(t, k, il).lab = At(v, Th(t, k, il)).lab
      /\ \A k \in Tris, j \in Tris, il \in 0..5, jl \in 0..5 :
            Th(t, k, il) = Th(t, j, jl) =>
               LocalNode(t, k, il).lab = LocalNode(t, j, jl).lab

====
